---- MODULE Spec2Model ----
(***************************************************************************)
(* Verification model of mcp-fabric: the gateway's admission controller    *)
(* (circuit.Breaker / BreakerManager), the gateway route table and the     *)
(* /v1/invoke handler, and the operator's Task controller.                 *)
(*                                                                         *)
(* Each subsystem has its own specification over the shared variables:     *)
(*   SpecBreaker  - one admission pool under concurrent Acquire/Release    *)
(*   SpecGateway  - /v1/invoke requests against a hot-reloaded table       *)
(*   SpecTask     - TaskReconciler.Reconcile against the resource store    *)
(*   SpecAgent    - AgentReconciler and ToolReconciler against the store   *)
(*   SpecRoute    - RouteReconciler compiling a Route for the gateway      *)
(*   SpecMCP      - the gateway's MCP endpoint and its Agent watcher       *)
(***************************************************************************)
EXTENDS Integers, Sequences, FiniteSets, TLC

VARIABLES
    breakers,   \* BreakerManager.breakers: pool name -> Breaker state
    mdefaults,  \* BreakerManager.defaults: the Config used by New for new pools
    rq,         \* one record per in-flight goroutine (request)
    table,      \* routes.Table: the config and the compiled rules it holds
    wpc,        \* the file watcher goroutine: "idle" | "loaded" | "failed"
    task,       \* the Task object as stored by the API server
    job,        \* the orchestrator Job "<task>-orchestrator" and its pod log
    pvc,        \* TRUE while the workspace PersistentVolumeClaim exists
    now,        \* the wall clock, in ticks
    last,       \* what the latest Reconcile call did and returned
    agentCR,    \* the Agent object as stored by the API server
    toolCR,     \* the Tool object the Agent's toolPackages refer to
    deploy,     \* the Agent's Deployment: whether it exists, its readyReplicas
    olast,      \* what the latest Agent/Tool/Route Reconcile call did and returned
    route,      \* the Route object as stored by the API server
    route2,     \* a second Route object of the same cluster, or its absence
    agents,     \* the Agents the Route refers to, as the Route controller reads them
    cm,         \* the gateway's routes ConfigMap: the compiled table published
    cache,      \* AgentWatcher.agents: the Agent the MCP endpoint serves, as cached
    sessions,   \* mcp.Handler.sessions and each HandleSSE call's position
    wpend,      \* the watcher's event handler between its Store and its onChange
    mlast,      \* the answer to the latest MCP request
    mcalls      \* the tools/call forwards in flight, per transport

gvars == <<breakers, mdefaults, rq, table, wpc>>
tvars == <<task, job, pvc, now, last>>
avars == <<agentCR, toolCR, deploy>>
rvars == <<route, route2, agents, cm>>
mvars == <<cache, sessions, wpend, mlast, mcalls>>
vars == <<gvars, tvars, avars, rvars, olast, mvars>>

\* What each subsystem's actions leave alone: the other subsystems' state.
notGateway == <<tvars, avars, rvars, olast, mvars>>
notTask == <<gvars, avars, rvars, olast, mvars>>
notAgent == <<gvars, tvars, rvars, mvars>>
notRoute == <<gvars, tvars, avars, mvars>>
notMCP == <<gvars, tvars, avars, rvars, olast>>

(***************************************************************************)
(* Bounds of the model.                                                    *)
(***************************************************************************)
NumReqs == 3        \* concurrent callers of one pool (SpecBreaker)
NumClients == 2     \* /v1/invoke requests served, all possibly concurrent (SpecGateway)
MaxConc == 2        \* largest configured maxConcurrent explored
MaxQueue == 1       \* largest configured maxQueueSize explored

Reqs == 1..NumReqs
Clients == 1..NumClients
Pools == {"r1", "r2", "_default"}

(***************************************************************************)
(* circuit.Config / circuit.New                                            *)
(***************************************************************************)
DefaultMaxConcurrent == 100
DefaultMaxQueueSize == 50
DefaultQueueTimeoutMs == 30000

Config(mc, mq, qt) == [MaxConcurrent |-> mc, MaxQueueSize |-> mq, QueueTimeout |-> qt]

DefaultConfig == Config(DefaultMaxConcurrent, DefaultMaxQueueSize, DefaultQueueTimeoutMs)

\* gen numbers the Breaker objects the registry has made for a name.
NoBreaker ==
    [exists |-> FALSE, maxConcurrent |-> 0, maxQueue |-> 0, queueTimeout |-> 0,
     cap |-> 0, active |-> 0, waiting |-> 0, tokens |-> 0, gen |-> 0]

\* New normalises the configuration and sizes the wake channel.
New(cfg) ==
    LET mc == IF cfg.MaxConcurrent <= 0 THEN DefaultMaxConcurrent ELSE cfg.MaxConcurrent
        mq == IF cfg.MaxQueueSize < 0 THEN 0 ELSE cfg.MaxQueueSize
        qt == IF cfg.QueueTimeout <= 0 THEN DefaultQueueTimeoutMs ELSE cfg.QueueTimeout
    IN  [exists |-> TRUE, maxConcurrent |-> mc, maxQueue |-> mq, queueTimeout |-> qt,
         cap |-> mc + mq, active |-> 0, waiting |-> 0, tokens |-> 0, gen |-> 0]

(***************************************************************************)
(* Breaker.Acquire, first critical section (b.mu held).                    *)
(***************************************************************************)
HasCapacity(b) == b.active < b.maxConcurrent

QueueIsFullOff(b) == b.waiting > b.maxQueue
QueueIsFull(b) == b.waiting >= b.maxQueue

\* The three outcomes of the locked prefix of Acquire.
AcquireLocked(b) ==
    IF HasCapacity(b)
    THEN [b |-> [b EXCEPT !.active = @ + 1], outcome |-> "ok"]
    ELSE IF QueueIsFull(b)
    THEN [b |-> b, outcome |-> "full"]
    ELSE [b |-> [b EXCEPT !.waiting = @ + 1], outcome |-> "wait"]

(***************************************************************************)
(* Breaker.Acquire, the select statement.  Go chooses uniformly among the  *)
(* cases that are ready; no case has priority.                             *)
(***************************************************************************)
ReadyCases(b, q) ==
    (IF q.ctxDone THEN {"cancel"} ELSE {})
    \cup (IF q.timerFired THEN {"timeout"} ELSE {})
    \cup (IF b.tokens > 0 THEN {"wake"} ELSE {})

SelectChoices(ready) == ready

\* A variant that gives the queue place back only on a wake.
ExitLockedWakeOnly(b, exit) ==
    IF exit = "wake"
    THEN [b EXCEPT !.waiting = @ - 1, !.active = @ + 1]
    ELSE b

\* The critical section that follows the chosen case.
ExitLocked(b, exit) ==
    IF exit = "wake"
    THEN [b EXCEPT !.waiting = @ - 1, !.active = @ + 1]
    ELSE [b EXCEPT !.waiting = @ - 1]

AcquireError(exit) ==
    CASE exit = "wake" -> "nil"
      [] exit = "timeout" -> "ErrQueueTimeout"
      [] exit = "cancel" -> "ctxErr"

(***************************************************************************)
(* Breaker.Release (one critical section; the send is non-blocking).       *)
(***************************************************************************)
\* A variant that never signals a waiter.
ReleaseSilently(b) == [b EXCEPT !.active = @ - 1]

ReleaseLocked(b) ==
    LET b1 == [b EXCEPT !.active = @ - 1]
    IN  IF b1.waiting > 0 /\ b1.tokens < b1.cap
        THEN [b1 EXCEPT !.tokens = @ + 1]
        ELSE b1

(***************************************************************************)
(* Request goroutines.                                                     *)
(***************************************************************************)
IdleReq ==
    [pc |-> "idle", pool |-> "r1", ctxDone |-> FALSE, timerFired |-> FALSE,
     ready |-> {}, exit |-> "none", acqErr |-> "none",
     acquires |-> 0, releases |-> 0, qfull |-> 0, qtimeout |-> 0,
     kind |-> 0, mtab |-> -1, dtab |-> -1, backend |-> "", status |-> 0,
     fwd |-> "none", relPool |-> "", errType |-> "", bgen |-> 0]

\* The places where the request's context is still read afterwards.
ObservesCtx(q) == q.pc \in {"acquire", "waiting"}

\* Client disconnect / deadline: the request context is cancelled.
CtxCancel(r) ==
    /\ ObservesCtx(rq[r])
    /\ ~rq[r].ctxDone
    /\ rq' = [rq EXCEPT ![r].ctxDone = TRUE]
    /\ UNCHANGED <<breakers, mdefaults, table, wpc, notGateway>>

\* Acquire: lock, fast path / queue-full / enqueue, unlock.
AcquireEnter(r) ==
    /\ rq[r].pc = "acquire"
    /\ LET p == rq[r].pool
           res == AcquireLocked(breakers[p])
       IN /\ breakers' = [breakers EXCEPT ![p] = res.b]
          /\ rq' = [rq EXCEPT
                ![r].pc = CASE res.outcome = "ok" -> "acqOK"
                            [] res.outcome = "full" -> "acqErr"
                            [] res.outcome = "wait" -> "waiting",
                ![r].acqErr = CASE res.outcome = "ok" -> "nil"
                                [] res.outcome = "full" -> "ErrQueueFull"
                                [] res.outcome = "wait" -> "none",
                ![r].acquires = IF res.outcome = "ok" THEN @ + 1 ELSE @,
                ![r].qfull = IF res.outcome = "full" THEN @ + 1 ELSE @,
                ![r].timerFired = FALSE]
    /\ UNCHANGED <<mdefaults, table, wpc, notGateway>>

\* time.NewTimer(b.queueTimeout) expires while the goroutine is parked.
TimerFires(r) ==
    /\ rq[r].pc = "waiting"
    /\ ~rq[r].timerFired
    /\ rq' = [rq EXCEPT ![r].timerFired = TRUE]
    /\ UNCHANGED <<breakers, mdefaults, table, wpc, notGateway>>

\* The select statement fires one ready case; a wake consumes a token.
SelectFire(r) ==
    /\ rq[r].pc = "waiting"
    /\ LET p == rq[r].pool
           ready == ReadyCases(breakers[p], rq[r])
       IN \E c \in SelectChoices(ready) :
            /\ breakers' = [breakers EXCEPT
                  ![p].tokens = IF c = "wake" THEN @ - 1 ELSE @]
            /\ rq' = [rq EXCEPT ![r].pc = "exiting", ![r].exit = c,
                                ![r].ready = ready]
    /\ UNCHANGED <<mdefaults, table, wpc, notGateway>>

\* The critical section of the chosen case, then return.
ExitCommit(r) ==
    /\ rq[r].pc = "exiting"
    /\ LET p == rq[r].pool
           e == rq[r].exit
       IN /\ breakers' = [breakers EXCEPT ![p] = ExitLocked(@, e)]
          /\ rq' = [rq EXCEPT
                ![r].pc = IF e = "wake" THEN "acqOK" ELSE "acqErr",
                ![r].acqErr = AcquireError(e),
                ![r].exit = "none", ![r].ready = {}, ![r].timerFired = FALSE,
                ![r].acquires = IF e = "wake" THEN @ + 1 ELSE @,
                ![r].qtimeout = IF e = "timeout" THEN @ + 1 ELSE @]
    /\ UNCHANGED <<mdefaults, table, wpc, notGateway>>

(***************************************************************************)
(* SpecBreaker: one pre-built pool driven directly by its callers, each    *)
(* Release paired with a prior successful Acquire.                         *)
(***************************************************************************)
QueueTimeouts == {0, 1000}

BreakerConfigs ==
    { Config(mc, mq, qt) : mc \in 0..MaxConc, mq \in -1..MaxQueue, qt \in {1000} }
    \cup { Config(1, 1, qt) : qt \in QueueTimeouts }
    \cup { Config(1, 2, 1000) }

InitBreakerVars ==
    /\ mdefaults \in BreakerConfigs
    /\ breakers = [p \in Pools |-> IF p = "r1" THEN New(mdefaults) ELSE NoBreaker]
    /\ rq = [r \in Reqs |-> IdleReq]
    /\ table = [config |-> 0, compiled |-> 0]
    /\ wpc = "idle"

\* A caller starts an Acquire on the pool.
BCall(r) ==
    /\ rq[r].pc = "idle"
    /\ rq' = [rq EXCEPT ![r] = [IdleReq EXCEPT !.pc = "acquire", !.pool = "r1"]]
    /\ UNCHANGED <<breakers, mdefaults, table, wpc, notGateway>>

\* The caller releases the slot it holds.
BRelease(r) ==
    /\ rq[r].pc = "acqOK"
    /\ breakers' = [breakers EXCEPT ![rq[r].pool] = ReleaseLocked(@)]
    /\ rq' = [rq EXCEPT ![r] = IdleReq]
    /\ UNCHANGED <<mdefaults, table, wpc, notGateway>>

\* A failed Acquire returns to its caller, which does not release.
BFail(r) ==
    /\ rq[r].pc = "acqErr"
    /\ rq' = [rq EXCEPT ![r] = IdleReq]
    /\ UNCHANGED <<breakers, mdefaults, table, wpc, notGateway>>

NextBreaker ==
    \E r \in Reqs :
        \/ BCall(r)
        \/ CtxCancel(r)
        \/ AcquireEnter(r)
        \/ TimerFires(r)
        \/ SelectFire(r)
        \/ ExitCommit(r)
        \/ BRelease(r)
        \/ BFail(r)

\* No goroutine is between its select and the critical section that follows.
Quiescent == \A r \in DOMAIN rq : rq[r].pc # "exiting"

(***************************************************************************)
(* routes.RouteConfig: the compiled table blob.  A nil pointer is a        *)
(* sequence of length 0, a set pointer a sequence of length 1.             *)
(***************************************************************************)
Backend(a, ready, w) ==
    [agentName |-> a, namespace |-> "ns", endpoint |-> a, weight |-> w, ready |-> ready]

RouteMatch(agent, re, tenant, hdrs) ==
    [agent |-> agent, intentRegex |-> re, tenantId |-> tenant, headers |-> hdrs]

Rule(name, prio, m, bs) ==
    [name |-> name, priority |-> prio, match |-> m, backends |-> bs]

Defaults(backend, mc, mq, qt, reject) ==
    [backend |-> backend, maxConcurrent |-> mc, maxQueueSize |-> mq,
     queueTimeoutMs |-> qt, rejectUnmatched |-> reject]

\* Regular expressions are abstracted to names with a fixed language over the
\* intents of the model; "re_bad" is a pattern regexp.Compile rejects.
Intents == {"", "cost", "docs"}
RegexCompiles(re) == re # "re_bad"
RegexMatchString(re, intent) ==
    CASE re = "re_cost" -> intent = "cost"
      [] re = "re_any" -> TRUE
      [] OTHER -> FALSE

\* The blobs the reconciler may publish (and damaged files the watcher may read).
Blobs == <<
    \* 1: one explicit-agent rule, tight admission limits, lenient on no match
    [json |-> TRUE,
     rules |-> << Rule("r1", 10, RouteMatch("a1", "", "", {}), <<Backend("a1", TRUE, 100)>>) >>,
     defaults |-> << Defaults(<<>>, 1, 1, 1000, FALSE) >>],
    \* 2: intent rule with an unready backend, agent rule, ready default backend
    [json |-> TRUE,
     rules |-> << Rule("r1", 20, RouteMatch("", "re_cost", "", {}),
                       <<Backend("a1", FALSE, 50), Backend("a2", TRUE, 50)>>),
                  Rule("r2", 10, RouteMatch("a2", "", "", {}),
                       <<Backend("a2", TRUE, 0), Backend("a1", TRUE, 0)>>) >>,
     defaults |-> << Defaults(<<Backend("a1", TRUE, 100)>>, 1, 0, 0, TRUE) >>],
    \* 3: not JSON
    [json |-> FALSE, rules |-> <<>>, defaults |-> <<>>],
    \* 4: a rule whose intentRegex does not compile
    [json |-> TRUE,
     rules |-> << Rule("r1", 10, RouteMatch("", "re_bad", "", {}), <<Backend("a1", TRUE, 100)>>) >>,
     defaults |-> << Defaults(<<>>, 1, 1, 1000, TRUE) >>],
    \* 5: tenant+header rule with no ready backend, unready default backend
    [json |-> TRUE,
     rules |-> << Rule("r2", 5, RouteMatch("", "", "t1", {<<"X-K", "v">>}),
                       <<Backend("a2", FALSE, 100)>>) >>,
     defaults |-> << Defaults(<<Backend("a2", FALSE, 100)>>, 1, 1, 1000, TRUE) >>],
    \* 6: no rules and no defaults
    [json |-> TRUE, rules |-> <<>>, defaults |-> <<>>]
  >>

NoConfig == [json |-> TRUE, rules |-> <<>>, defaults |-> <<>>]

\* The table's fields hold blob numbers; 0 is the nil config of NewTable.
ConfigOf(i) == IF i = 0 THEN NoConfig ELSE Blobs[i]

\* Table.LoadFromJSON: unmarshal, compile every non-empty intentRegex, and
\* only then swap config and compiled together under the writer lock.
UnmarshalOrCompileFails(blob) ==
    \/ ~blob.json
    \/ \E k \in 1..Len(blob.rules) :
          /\ blob.rules[k].match.intentRegex # ""
          /\ ~RegexCompiles(blob.rules[k].match.intentRegex)

LoadFails(i) == UnmarshalOrCompileFails(Blobs[i])

\* A variant that stores the configuration before compiling its regexes.
LoadFromJSONEager(t, i) ==
    IF ~Blobs[i].json THEN t
    ELSE [config |-> i, compiled |-> IF LoadFails(i) THEN t.compiled ELSE i]

LoadFromJSON(t, i) ==
    IF LoadFails(i) THEN t ELSE [config |-> i, compiled |-> i]

(***************************************************************************)
(* Table.Match / ruleMatches / filterReadyBackends / GetDefaults           *)
(***************************************************************************)
\* A variant that keeps every backend.
filterNothing(bs) == bs

filterReadyBackends(bs) == SelectSeq(bs, LAMBDA b : b.ready)

\* req.Headers[k] of an absent key is the empty string.
HeaderOf(req, k) == IF k \in DOMAIN req.headers THEN req.headers[k] ELSE ""

ruleMatches(rule, req) ==
    /\ ~(rule.match.agent # "" /\ rule.match.agent # req.agent)
    /\ (rule.match.intentRegex # "" => RegexMatchString(rule.match.intentRegex, req.intent))
    /\ ~(rule.match.tenantId # "" /\ rule.match.tenantId # req.tenantId)
    /\ \A kv \in rule.match.headers : HeaderOf(req, kv[1]) = kv[2]

MinOf(S) == CHOOSE x \in S : \A y \in S : x <= y

NoMatch == [found |-> FALSE, ruleName |-> "", backends |-> <<>>]

\* Match over the rules and defaults a loaded table holds.
MatchRules(rules, dflt, req) ==
    LET usable(i) == Len(filterReadyBackends(rules[i].backends)) > 0
        agentHits == {i \in 1..Len(rules) :
                        req.agent # "" /\ rules[i].match.agent = req.agent /\ usable(i)}
        ruleHits == {i \in 1..Len(rules) : ruleMatches(rules[i], req) /\ usable(i)}
        hit(i) == [found |-> TRUE, ruleName |-> rules[i].name,
                   backends |-> filterReadyBackends(rules[i].backends)]
    IN  IF agentHits # {} THEN hit(MinOf(agentHits))
        ELSE IF ruleHits # {} THEN hit(MinOf(ruleHits))
        ELSE IF Len(dflt) > 0 /\ Len(dflt[1].backend) > 0 /\ dflt[1].backend[1].ready
        THEN [found |-> TRUE, ruleName |-> "_default", backends |-> dflt[1].backend]
        ELSE NoMatch

Match(t, req) ==
    IF t.config = 0 THEN NoMatch
    ELSE MatchRules(ConfigOf(t.compiled).rules, ConfigOf(t.config).defaults, req)

GetDefaults(t) == IF t.config = 0 THEN <<>> ELSE ConfigOf(t.config).defaults

(***************************************************************************)
(* Selector.Select: the indices a strategy can return.                     *)
(***************************************************************************)
RECURSIVE SumWeights(_)
SumWeights(bs) == IF bs = <<>> THEN 0 ELSE Head(bs).weight + SumWeights(Tail(bs))

\* The first index whose cumulative weight exceeds x, else the last index.
WeightedPick(bs, x) ==
    LET hits == {i \in 1..Len(bs) : x < SumWeights(SubSeq(bs, 1, i))}
    IN  IF hits # {} THEN MinOf(hits) ELSE Len(bs)

SelectWeighted(bs) ==
    IF Len(bs) = 0 THEN {}
    ELSE IF Len(bs) = 1 THEN {1}
    ELSE IF SumWeights(bs) <= 0 THEN 1..Len(bs)
    ELSE {WeightedPick(bs, x) : x \in 0..(SumWeights(bs) - 1)}

\* FNV-1a of the key, abstracted to a fixed function of the model's keys.
HashOf(key) == IF key = <<"t1", "">> THEN 7 ELSE 4

SelectConsistentHash(bs, key) ==
    IF Len(bs) = 0 THEN {}
    ELSE IF Len(bs) = 1 THEN {1}
    ELSE {(HashOf(key) % Len(bs)) + 1}

Select(bs, req) ==
    IF req.tenantId # "" \/ req.correlationId # ""
    THEN SelectConsistentHash(bs, <<req.tenantId, req.correlationId>>)
    ELSE SelectWeighted(bs)

(***************************************************************************)
(* Handler.handleInvoke                                                    *)
(***************************************************************************)
InvokeRequest(agent, intent, tenant, hdrs) ==
    [agent |-> agent, intent |-> intent, tenantId |-> tenant, correlationId |-> "",
     headers |-> hdrs]

\* The request bodies a client sends.
ReqKinds == <<
    InvokeRequest("a1", "", "", <<>>),
    InvokeRequest("", "cost", "t1", [k \in {"X-K"} |-> "v"]),
    InvokeRequest("a2", "docs", "", <<>>),
    InvokeRequest("", "docs", "", <<>>)
  >>

\* A request arrives; a body that does not decode is answered 400 at once.
Arrive(r) ==
    /\ rq[r].pc = "idle"
    /\ \/ \E k \in 1..Len(ReqKinds) :
            rq' = [rq EXCEPT ![r] = [IdleReq EXCEPT !.pc = "match", !.kind = k]]
       \/ rq' = [rq EXCEPT ![r] = [IdleReq EXCEPT !.pc = "done", !.status = 400,
                                                  !.errType = "invalid_request"]]
    /\ UNCHANGED <<breakers, mdefaults, table, wpc, notGateway>>

\* h.table.Match under the reader lock, then h.selector.Select.
MatchStep(r) ==
    /\ rq[r].pc = "match"
    /\ LET req == ReqKinds[rq[r].kind]
           m == Match(table, req)
       IN IF ~m.found \/ Len(m.backends) = 0
          THEN rq' = [rq EXCEPT ![r].pc = "nomatch", ![r].mtab = table.config,
                                ![r].kind = 0]
          ELSE \E i \in Select(m.backends, req) :
                 rq' = [rq EXCEPT ![r].pc = "get", ![r].mtab = table.config,
                                  ![r].pool = m.ruleName,
                                  ![r].backend = m.backends[i].agentName]
    /\ UNCHANGED <<breakers, mdefaults, table, wpc, notGateway>>

\* The no-match answer: h.table.GetDefaults under a second reader lock.
RejectUnmatched(d) == Len(d) > 0 /\ d[1].rejectUnmatched

NoMatchRespond(r) ==
    /\ rq[r].pc = "nomatch"
    /\ LET d == GetDefaults(table)
       IN rq' = [rq EXCEPT ![r].pc = "done", ![r].dtab = table.config,
                   ![r].status = IF RejectUnmatched(d) THEN 400 ELSE 404,
                   ![r].errType = IF RejectUnmatched(d) THEN "no_route_match" ELSE "no_agent"]
    /\ UNCHANGED <<breakers, mdefaults, table, wpc, notGateway>>

\* BreakerManager.Get, lookup under the reader lock.
GetFast(r) ==
    /\ rq[r].pc = "get"
    /\ rq' = [rq EXCEPT ![r].pc = IF breakers[rq[r].pool].exists THEN "acquire" ELSE "getslow",
                        ![r].bgen = breakers[rq[r].pool].gen,
                        ![r].kind = 0, ![r].mtab = -1]
    /\ UNCHANGED <<breakers, mdefaults, table, wpc, notGateway>>

\* BreakerManager.Get, double-check and creation under the writer lock.
\* A variant without the double-check: the writer always builds a pool.
GetCreateAlways(bs, p, cfg) ==
    [bs EXCEPT ![p] = [New(cfg) EXCEPT !.gen = bs[p].gen + 1]]

GetCreate(bs, p, cfg) ==
    IF bs[p].exists THEN bs
    ELSE [bs EXCEPT ![p] = [New(cfg) EXCEPT !.gen = bs[p].gen + 1]]

GetSlow(r) ==
    /\ rq[r].pc = "getslow"
    /\ breakers' = GetCreate(breakers, rq[r].pool, mdefaults)
    /\ rq' = [rq EXCEPT ![r].pc = "acquire", ![r].bgen = breakers'[rq[r].pool].gen]
    /\ UNCHANGED <<mdefaults, table, wpc, notGateway>>

\* Acquire returned an error: 503, classified; no Release is registered.
ErrorType(e) ==
    CASE e = "ErrQueueFull" -> "queue_full"
      [] e = "ErrQueueTimeout" -> "queue_timeout"
      [] OTHER -> "circuit_breaker"

AcquireFailed(r) ==
    /\ rq[r].pc = "acqErr"
    /\ rq' = [rq EXCEPT ![r].pc = "done", ![r].status = 503,
                        ![r].errType = ErrorType(rq[r].acqErr),
                        ![r].ctxDone = FALSE, ![r].backend = "",
                        ![r].qfull = IF rq[r].acqErr = "ErrQueueFull" THEN @ + 1 ELSE @,
                        ![r].qtimeout = IF rq[r].acqErr = "ErrQueueTimeout" THEN @ + 1 ELSE @]
    /\ UNCHANGED <<breakers, mdefaults, table, wpc, notGateway>>

\* Acquire returned nil: defer breaker.Release(), start the forward.
ForwardStart(r) ==
    /\ rq[r].pc = "acqOK"
    /\ rq' = [rq EXCEPT ![r].pc = "forward"]
    /\ UNCHANGED <<breakers, mdefaults, table, wpc, notGateway>>

\* h.forwardToAgent returns: a result, a worker/network error, the client
\* timeout, or the cancellation of the request context (which may also
\* happen during the forward).
ForwardOutcomes(q) == {"ok", "error", "timeout", "cancelled"}

ForwardDone(r) ==
    /\ rq[r].pc = "forward"
    /\ \E o \in ForwardOutcomes(rq[r]) :
         rq' = [rq EXCEPT ![r].pc = "respond", ![r].fwd = o, ![r].ctxDone = FALSE,
                          ![r].status = IF o = "ok" THEN 200 ELSE 502,
                          ![r].errType = IF o = "ok" THEN "" ELSE "agent_error"]
    /\ UNCHANGED <<breakers, mdefaults, table, wpc, notGateway>>

\* The handler returns: the response is written and the deferred Release runs.
ReleaseOnSuccessOnly(q) == q.fwd = "ok"
DeferredReleaseRuns(q) == TRUE

Return(r) ==
    /\ rq[r].pc = "respond"
    /\ IF DeferredReleaseRuns(rq[r])
       THEN /\ breakers' = [breakers EXCEPT ![rq[r].pool] = ReleaseLocked(@)]
            /\ rq' = [rq EXCEPT ![r].pc = "done", ![r].releases = @ + 1,
                                ![r].relPool = rq[r].pool,
                                ![r].ctxDone = FALSE, ![r].backend = ""]
       ELSE /\ breakers' = breakers
            /\ rq' = [rq EXCEPT ![r].pc = "done",
                                ![r].ctxDone = FALSE, ![r].backend = ""]
    /\ UNCHANGED <<mdefaults, table, wpc, notGateway>>

(***************************************************************************)
(* watchRoutesFile: LoadFromFile, then Handler.UpdateDefaults.             *)
(***************************************************************************)
Reload ==
    /\ wpc \in {"idle", "failed"}
    /\ \E i \in 1..Len(Blobs) :
         /\ table' = LoadFromJSON(table, i)
         /\ wpc' = IF LoadFails(i) THEN "failed" ELSE "loaded"
    /\ UNCHANGED <<breakers, mdefaults, rq, notGateway>>

\* A variant that never replaces the manager's defaults.
UpdateConfigIgnored(old, d) == old

\* UpdateDefaults reads the table again and replaces the manager's defaults.
UpdateConfig(old, d) ==
    IF Len(d) = 0 THEN old
    ELSE Config(d[1].maxConcurrent, d[1].maxQueueSize, d[1].queueTimeoutMs)

UpdateDefaults ==
    /\ wpc = "loaded"
    /\ mdefaults' = UpdateConfig(mdefaults, GetDefaults(table))
    /\ wpc' = "idle"
    /\ UNCHANGED <<breakers, rq, table, notGateway>>

InitGatewayVars ==
    /\ mdefaults = DefaultConfig
    /\ breakers = [p \in Pools |-> NoBreaker]
    /\ rq = [r \in Clients |-> IdleReq]
    /\ table = [config |-> 0, compiled |-> 0]
    /\ wpc = "idle"

NextGateway ==
    \/ Reload
    \/ UpdateDefaults
    \/ \E r \in Clients :
        \/ Arrive(r)
        \/ MatchStep(r)
        \/ NoMatchRespond(r)
        \/ GetFast(r)
        \/ GetSlow(r)
        \/ CtxCancel(r)
        \/ AcquireEnter(r)
        \/ TimerFires(r)
        \/ SelectFire(r)
        \/ ExitCommit(r)
        \/ AcquireFailed(r)
        \/ ForwardStart(r)
        \/ ForwardDone(r)
        \/ Return(r)

(***************************************************************************)
(* Task controller: TaskReconciler.Reconcile and the resources it owns.    *)
(* The state is what the API server stores; one Reconcile call is one      *)
(* step, and each API write of the call succeeds or fails as an input.     *)
(***************************************************************************)
MaxTime == 2        \* the clock runs from 0 to MaxTime
TotalTimeout == 1   \* limits.totalTimeout, in ticks
MaxLimit == 1       \* largest spec.limits.maxJobRecreations explored

maxJobRecreations == 3

\* task.counters is <<status.currentIteration, status.completedTasks,
\* status.consecutiveFailures>>.
\* task.Status.Message; n is the %d of the formatted messages.
Msg(text, n) == [text |-> text, n |-> n]
NoMsg == Msg("", 0)

\* ctrl.Result and error of a Reconcile call, and the deletes/creates issued.
Res(handler, requeue, err) ==
    [handler |-> handler, requeue |-> requeue, err |-> err,
     jobDelete |-> FALSE, pvcDelete |-> FALSE, jobCreate |-> FALSE]
NoRes == Res("", "none", FALSE)

\* job.created is history: the controller created a Job for the Task at
\* some time.  No handler reads it.
AbsentJob == [state |-> "absent", log |-> 0, created |-> FALSE]

\* A pod log line: the payload follows the ORCHESTRATOR_RESULT: marker.
Line(marker, payload) == [marker |-> marker, payload |-> payload]
Noise == Line(FALSE, "")

Logs == <<
    <<Noise>>,
    <<Line(TRUE, "fail"), Noise>>,
    <<Line(TRUE, "pass"), Line(TRUE, "failerr"), Noise>>,
    <<Noise, Line(TRUE, "fail"), Line(TRUE, "pass")>>
  >>

\* json.Unmarshal of a payload into OrchestratorResult.
ParseFails(payload) == payload \notin {"pass", "fail", "failerr"}
Unmarshal(payload) ==
    [passed |-> payload = "pass",
     error |-> IF payload = "failerr" THEN "orchestrator error" ELSE "",
     iterations |-> IF payload = "pass" THEN 2 ELSE 1,
     completedTasks |-> IF payload = "pass" THEN 2 ELSE 0]

\* A variant that keeps the first marker line.
ScanLinesFirst(lines, resultLine) ==
    LET ms == {k \in 1..Len(lines) : lines[k].marker}
    IN  IF ms = {} THEN resultLine ELSE lines[MinOf(ms)].payload

\* The scanner loop: resultLine is the payload of the last marker line.
RECURSIVE ScanLines(_, _)
ScanLines(lines, resultLine) ==
    IF Len(lines) = 0 THEN resultLine
    ELSE ScanLines(Tail(lines),
                   IF Head(lines).marker THEN Head(lines).payload ELSE resultLine)

\* getOrchestratorResult: (result, err); readable is FALSE when the pod is
\* gone, the clientset is nil or the log stream cannot be opened.
getOrchestratorResult(j, readable) ==
    LET resultLine == ScanLines(IF j.log = 0 THEN <<>> ELSE Logs[j.log], "")
    IN  IF ~readable \/ resultLine = "" \/ ParseFails(resultLine)
        THEN [err |-> TRUE, passed |-> FALSE, error |-> "", iterations |-> 0,
              completedTasks |-> 0]
        ELSE [err |-> FALSE, passed |-> Unmarshal(resultLine).passed,
              error |-> Unmarshal(resultLine).error,
              iterations |-> Unmarshal(resultLine).iterations,
              completedTasks |-> Unmarshal(resultLine).completedTasks]

\* cleanupOrchestratorJob: the Delete's error is discarded.
cleanupOrchestratorJob(w, in) ==
    [w EXCEPT !.job = IF in.dj THEN [AbsentJob EXCEPT !.created = w.job.created] ELSE @,
              !.res.jobDelete = TRUE]

\* r.Status().Update / r.Update: stores the object, or fails and stores
\* nothing; the caller then returns the error.
Write(w, ok, t) == IF ok THEN [w EXCEPT !.task = t] ELSE [w EXCEPT !.res.err = TRUE]

\* return ctrl.Result{...}, nil after a write, or the write's error.
Requeue(w, requeue) == IF w.res.err THEN w ELSE [w EXCEPT !.res.requeue = requeue]

Enter(w, handler) == [w EXCEPT !.res = Res(handler, "none", FALSE)]

\* handleDeletion: what it deletes before it removes the finalizer.
DeletionDeletesJobOnly == {"job"}
DeletionDeletes == {"job", "pvc"}

handleDeletion(w, in) ==
    LET w0 == Enter(w, "handleDeletion")
        w1 == IF "job" \in DeletionDeletes THEN cleanupOrchestratorJob(w0, in) ELSE w0
        w2 == IF "pvc" \in DeletionDeletes
              THEN [w1 EXCEPT !.pvc = IF in.dp THEN FALSE ELSE @, !.res.pvcDelete = TRUE]
              ELSE w1
    IN  IF ~w.task.finalizer THEN w0
        ELSE Write(w2, in.w1, [w.task EXCEPT !.finalizer = FALSE, !.exists = FALSE])

\* handlePendingPhase.  in.pre names the first step that fails, if any: an
\* agent lookup (the worker lookup fails exactly as the orchestrator lookup
\* does), the claim, the source load (the Job render fails exactly as the
\* load does), or the Job create.
PendingOutcomes ==
    {"ok", "OrchestratorNotFound", "pvcError", "TaskSourceError", "createError"}

handlePendingPhase(w, in) ==
    LET w0 == Enter(w, "handlePendingPhase")
        cond(x, reason) == Requeue(Write(x, in.w1, [w.task EXCEPT !.reason = reason]), "delay")
        wp == [w0 EXCEPT !.pvc = TRUE]
        wj == IF wp.job.state = "absent"
              THEN [wp EXCEPT !.job = [state |-> "active", log |-> 0, created |-> TRUE],
                              !.res.jobCreate = TRUE]
              ELSE wp
    IN  CASE in.pre = "OrchestratorNotFound" -> cond(w0, in.pre)
          [] in.pre = "pvcError" -> [w0 EXCEPT !.res.requeue = "delay", !.res.err = TRUE]
          [] in.pre = "TaskSourceError" -> cond(wp, in.pre)
          [] in.pre = "createError" -> [wp EXCEPT !.res.requeue = "delay", !.res.err = TRUE]
          [] OTHER ->
               Requeue(Write(wj, in.w1, [w.task EXCEPT !.phase = "Running",
                                                       !.startedAt = <<now>>,
                                                       !.reason = "Running"]),
                       "poll")

\* A variant that treats an extraction error as not passed.
handleJobSuccessStrict(w, in) ==
    LET r == getOrchestratorResult(w.job, in.readable)
        passed == ~r.err /\ r.passed
        t0 == [w.task EXCEPT !.counters = <<r.iterations, r.completedTasks, @[3]>>]
        t == IF passed
             THEN [t0 EXCEPT !.phase = "Completed", !.reason = "Completed",
                     !.message = Msg("All tasks completed successfully", 0)]
             ELSE [t0 EXCEPT !.phase = "Failed", !.reason = "PartialCompletion",
                     !.message = Msg("Orchestrator completed but not all tasks passed", 0)]
    IN  Requeue(Write(w, in.w1, t), "none")

\* handleJobSuccess: an extraction error is treated as passed.
handleJobSuccess(w, in) ==
    LET r == getOrchestratorResult(w.job, in.readable)
        passed == r.err \/ r.passed
        t0 == [w.task EXCEPT !.counters = <<r.iterations, r.completedTasks, @[3]>>]
        t == IF passed
             THEN [t0 EXCEPT !.phase = "Completed", !.reason = "Completed",
                     !.message = Msg("All tasks completed successfully", 0)]
             ELSE [t0 EXCEPT !.phase = "Failed", !.reason = "PartialCompletion",
                     !.message = IF r.error # "" THEN Msg(r.error, 0)
                                 ELSE Msg("Orchestrator completed but not all tasks passed", 0)]
    IN  Requeue(Write(w, in.w1, t), "none")

\* handleJobFailure
handleJobFailure(w, in) ==
    LET r == getOrchestratorResult(w.job, in.readable)
        t == [w.task EXCEPT !.phase = "Failed", !.reason = "JobFailed",
                !.counters = IF r.err THEN @ ELSE <<r.iterations, r.completedTasks, @[3]>>,
                !.message = IF ~r.err /\ r.error # "" THEN Msg(r.error, 0)
                            ELSE Msg("Orchestrator Job failed", 0)]
    IN  Requeue(Write(w, in.w1, t), "none")

\* The effective limit: spec.limits.maxJobRecreations, or the default.
MaxRecreationsOf(limit) == IF Len(limit) = 0 THEN maxJobRecreations ELSE limit[1]

\* int32(recreations) > maxRecreations
ExceedsAtLimit(recreations, max) == recreations >= max
ExceedsMaxRecreations(recreations, max) == recreations > max

\* elapsed > limits.TotalTimeout.Duration, when StartedAt is set
TimedOut(t) == Len(t.startedAt) > 0 /\ now - t.startedAt[1] > TotalTimeout

\* Which Running -> Failed branch calls cleanupOrchestratorJob.
CleansUpOnEveryFailure(reason) == TRUE
CleansUpJob(reason) == reason = "TotalTimeoutExceeded"

FailWith(w, in, reason, msg) ==
    LET u == Requeue(Write(w, in.w1, [w.task EXCEPT !.phase = "Failed",
                                        !.reason = reason, !.message = msg]), "none")
    IN  IF ~u.res.err /\ CleansUpJob(reason) THEN cleanupOrchestratorJob(u, in) ELSE u

\* The Job is absent: count the recreation, then fail or go back to Pending.
handleJobNotFound(w, in) ==
    LET recreations == w.task.annot + 1
        max == MaxRecreationsOf(w.task.limit)
        annotated == Write(w, in.w1, [w.task EXCEPT !.annot = recreations])
    IN  IF ExceedsMaxRecreations(recreations, max)
        THEN Requeue(Write(w, in.w1,
                 [w.task EXCEPT !.phase = "Failed",
                    !.message = Msg("Orchestrator Job lost %d times, giving up",
                                    recreations - 1)]), "none")
        ELSE IF annotated.res.err THEN annotated
        ELSE Requeue(Write(annotated, in.w2,
                           [annotated.task EXCEPT !.phase = "Pending"]), "delay")

handleRunningPhase(w, in) ==
    LET w0 == Enter(w, "handleRunningPhase")
    IN  IF TimedOut(w.task)
        THEN FailWith(w0, in, "TotalTimeoutExceeded", Msg("Total timeout exceeded: %v", TotalTimeout))
        ELSE CASE w.job.state = "absent" -> handleJobNotFound(w0, in)
               [] w.job.state = "succeeded" -> handleJobSuccess(w0, in)
               [] w.job.state = "failed" -> handleJobFailure(w0, in)
               [] w.job.state = "deadline" ->
                    FailWith(w0, in, "JobDeadlineExceeded",
                             Msg("Orchestrator Job deadline exceeded", 0))
               [] OTHER -> [w0 EXCEPT !.res.requeue = "poll"]

TerminalPhase(ph) == ph \in {"Completed", "Failed"}

\* A Reconcile that took the finalizer for granted.
FinalizerAssumed(t) == TRUE

\* controllerutil.ContainsFinalizer(&task, taskFinalizer)
ContainsFinalizer(t) == t.finalizer

\* Reconcile, in the order of its checks.
ReconcileOp(w, in) ==
    LET t == w.task
        w0 == Enter(w, "Reconcile")
    IN  IF ~t.exists THEN w0
        ELSE IF t.deleting THEN handleDeletion(w, in)
        ELSE IF ~ContainsFinalizer(t)
        THEN Requeue(Write(w0, in.w1, [t EXCEPT !.finalizer = TRUE]), "now")
        ELSE IF t.phase = ""
        THEN Requeue(Write(w0, in.w1, [t EXCEPT !.phase = "Pending",
                                                  !.counters = <<0, 0, 0>>]), "now")
        ELSE IF t.paused
        THEN IF t.phase # "Paused"
             THEN Requeue(Write(w0, in.w1, [t EXCEPT !.phase = "Paused",
                                                     !.reason = "Paused"]), "none")
             ELSE w0
        ELSE IF TerminalPhase(t.phase) THEN w0
        ELSE CASE t.phase = "Pending" -> handlePendingPhase(w, in)
               [] t.phase = "Running" -> handleRunningPhase(w, in)
               [] OTHER ->
                    Requeue(Write(w0, in.w1, [t EXCEPT !.phase = "Running",
                                                       !.counters = <<@[1], @[2], 0>>,
                                                       !.reason = "Resumed"]), "now")

\* The inputs of one call: the outcome of its first and second write, of its
\* Job and claim deletes, of its Pending-phase steps, and of the log read.
\* An input the call never consults is left at its success value.
Failable(consulted) == IF consulted THEN BOOLEAN ELSE {TRUE}

ReconcileInputs ==
    [w1 : BOOLEAN,
     w2 : Failable(task.phase = "Running" /\ job.state = "absent"),
     dj : Failable(job.state # "absent" /\ (task.deleting \/ task.phase = "Running")),
     dp : Failable(pvc /\ task.deleting),
     pre : IF task.phase = "Pending" THEN PendingOutcomes ELSE {"ok"},
     readable : Failable(task.phase = "Running" /\ job.state \in {"succeeded", "failed"})]

Reconcile ==
    /\ \E in \in ReconcileInputs :
         LET w == ReconcileOp([task |-> task, job |-> job, pvc |-> pvc, res |-> NoRes], in)
         IN  /\ task' = w.task
             /\ job' = w.job
             /\ pvc' = w.pvc
             /\ last' = w.res
    /\ UNCHANGED <<now, notTask>>

\* A user sets or clears spec.paused.
SetPaused ==
    /\ task.exists
    /\ task' = [task EXCEPT !.paused = ~@]
    /\ last' = NoRes
    /\ UNCHANGED <<job, pvc, now, notTask>>

\* A user deletes the Task: with a finalizer the object stays, marked.
DeleteTask ==
    /\ task.exists /\ ~task.deleting
    /\ task' = IF task.finalizer THEN [task EXCEPT !.deleting = TRUE]
               ELSE [task EXCEPT !.exists = FALSE]
    /\ last' = NoRes
    /\ UNCHANGED <<job, pvc, now, notTask>>

\* The Job's pod ends: succeeded, failed, or killed at the active deadline.
JobFinishes ==
    /\ job.state = "active"
    /\ \E st \in {"succeeded", "failed", "deadline"}, l \in 1..Len(Logs) :
         job' = [job EXCEPT !.state = st, !.log = IF st = "deadline" THEN 0 ELSE l]
    /\ last' = NoRes
    /\ UNCHANGED <<task, pvc, now, notTask>>

\* The Job disappears: node loss, manual delete, or TTL after finish.
JobLost ==
    /\ job.state # "absent"
    /\ job' = [AbsentJob EXCEPT !.created = job.created]
    /\ last' = NoRes
    /\ UNCHANGED <<task, pvc, now, notTask>>

\* Owner-reference garbage collection once the Task object is gone.
GarbageCollect ==
    /\ ~task.exists
    /\ job.state # "absent" \/ pvc
    /\ job' = AbsentJob
    /\ pvc' = FALSE
    /\ last' = NoRes
    /\ UNCHANGED <<task, now, notTask>>

\* Time passes; only time elapsed since StartedAt is ever read.
Tick ==
    /\ task.exists /\ Len(task.startedAt) > 0
    /\ now < MaxTime
    /\ now' = now + 1
    /\ last' = NoRes
    /\ UNCHANGED <<task, job, pvc, notTask>>

NewTask(paused, limit) ==
    [exists |-> TRUE, phase |-> "", paused |-> paused, finalizer |-> FALSE,
     deleting |-> FALSE, annot |-> 0, limit |-> limit, startedAt |-> <<>>,
     message |-> NoMsg, reason |-> "", counters |-> <<0, 0, 0>>]

Limits == {<<>>} \cup {<<n>> : n \in 0..MaxLimit}

\* No Task: the controller's resources as the other specifications see them.
NoTask ==
    /\ task = [NewTask(FALSE, <<>>) EXCEPT !.exists = FALSE]
    /\ job = AbsentJob
    /\ pvc = FALSE
    /\ now = 0
    /\ last = NoRes

\* No gateway traffic: the gateway's state as the Task controller sees it.
NoGateway ==
    /\ mdefaults = DefaultConfig
    /\ breakers = [p \in Pools |-> NoBreaker]
    /\ rq = <<>>
    /\ table = [config |-> 0, compiled |-> 0]
    /\ wpc = "idle"

InitTaskVars ==
    /\ \E paused \in BOOLEAN, limit \in Limits : task = NewTask(paused, limit)
    /\ job = AbsentJob
    /\ pvc = FALSE
    /\ now = 0
    /\ last = NoRes

NextTask ==
    \/ Reconcile
    \/ SetPaused
    \/ DeleteTask
    \/ JobFinishes
    \/ JobLost
    \/ GarbageCollect
    \/ Tick

(***************************************************************************)
(* The operator's Agent and Tool controllers                               *)
(* (operator/internal/controllers/agent_controller.go).  One Reconcile     *)
(* call is one step over the API server's state; the outcome of each API   *)
(* call it makes is an input of the step.                                  *)
(***************************************************************************)
MaxReplicas == 1    \* largest spec.replicas and readyReplicas explored

\* The values of Agent.spec.tools explored (the advertised MCP tools).
ToolLists == {<<>>, <<"search">>, <<"search", "calc">>}
\* The values of Agent.spec.toolPackages explored (references to Tool objects).
PackageLists == {<<>>, <<"pkg">>}
\* Agent.spec.replicas: unset, or a number.
ReplicaSpecs == {<<>>} \cup {<<n>> : n \in 0..MaxReplicas}

\* What a Reconcile call of the operator did: the controller, the path it
\* took, whether its status write reached the store, the outcome of the
\* status update it attempted ("none" when it attempted none), and the
\* (ctrl.Result, error) it returned.
ORes(ctrl, handler, upd, requeue, err) ==
    [ctrl |-> ctrl, handler |-> handler, wrote |-> (upd = "ok"), upd |-> upd,
     requeue |-> requeue, err |-> err]
NoORes == ORes("", "", "none", FALSE, "none")

\* The outcomes of r.Status().Update.
UpdateOutcomes == {"ok", "conflict", "error"}

NewAgent(tools, pkgs, replicas) ==
    [exists |-> TRUE, tools |-> tools, toolPackages |-> pkgs, replicas |-> replicas,
     ready |-> FALSE, endpoint |-> "", availableTools |-> <<>>, reason |-> ""]

NewTool(image) == [exists |-> TRUE, image |-> image, ready |-> FALSE, reason |-> ""]

NoDeployment == [exists |-> FALSE, readyReplicas |-> 0]

\* render.AgentEndpoint: "<name>.<namespace>.svc.cluster.local:8080".
AgentEndpoint == "agent.ns.svc.cluster.local:8080"

\* resolveToolPackages: the error it returns, "none" when every referenced
\* Tool is fetched and ready.
resolveToolPackages(a, t, get) ==
    IF a.toolPackages = <<>> THEN "none"
    ELSE IF get # "ok" \/ ~t.exists THEN "toolGet"
    ELSE IF ~t.ready THEN "toolNotReady"
    ELSE "none"

\* checkDeploymentReady: <<ready, replicas>>.
checkDeploymentReady(a, d, get) ==
    IF get # "ok" \/ ~d.exists THEN <<FALSE, 0>>
    ELSE LET replicas == IF a.replicas = <<>> THEN 1 ELSE a.replicas[1]
         IN  <<d.readyReplicas >= replicas /\ d.readyReplicas > 0, d.readyReplicas>>

\* The steps that apply the Agent's resources, each of which can fail;
\* Reconcile returns the first error without a status write.
ApplyErrors == {"serviceaccount", "configmap", "deployment", "service"}

\* reconcileDeployment creates the Deployment when it is missing and keeps
\* its status otherwise.
reconcileDeployment(d) == IF d.exists THEN d ELSE [exists |-> TRUE, readyReplicas |-> 0]

\* Only a not-ready deployment keeps the endpoint back (a variant).
EndpointOnceReady(ready) == IF ready THEN AgentEndpoint ELSE ""

\* Reconcile sets status.endpoint before it checks the deployment.
EndpointFor(ready) == AgentEndpoint

\* status.availableTools as Reconcile leaves it.
AvailableToolsFor(a, ready) ==
    IF ready /\ Len(a.tools) > 0 THEN a.tools
    ELSE IF ~ready THEN <<>>
    ELSE a.availableTools

\* AgentReconciler.Reconcile on the stored agent a, tool t and deployment d.
AgentReconcileOp(a, t, d, in) ==
    IF ~a.exists
    THEN [agent |-> a, deploy |-> d, res |-> ORes("agent", "notFound", "none", FALSE, "none")]
    ELSE LET terr == resolveToolPackages(a, t, in.toolGet) IN
    IF terr # "none"
    THEN IF in.upd # "ok"
         THEN [agent |-> a, deploy |-> d,
               res |-> ORes("agent", "toolResolution", in.upd, FALSE, in.upd)]
         ELSE [agent |-> [a EXCEPT !.ready = FALSE, !.reason = "ToolResolutionFailed"],
               deploy |-> d,
               res |-> ORes("agent", "toolResolution", in.upd, FALSE, terr)]
    ELSE IF in.apply # "ok"
    THEN [agent |-> a,
          deploy |-> IF in.apply = "service" THEN reconcileDeployment(d) ELSE d,
          res |-> ORes("agent", "apply", "none", FALSE, in.apply)]
    ELSE LET d1 == reconcileDeployment(d)
             chk == checkDeploymentReady(a, d1, in.deployGet)
             ready == chk[1]
             a1 == [a EXCEPT !.endpoint = EndpointFor(ready),
                             !.ready = ready,
                             !.availableTools = AvailableToolsFor(a, ready),
                             !.reason = IF ready THEN "DeploymentReady"
                                        ELSE "DeploymentNotReady"]
         IN  IF in.upd # "ok"
             THEN [agent |-> a, deploy |-> d1,
                   res |-> ORes("agent", "status", in.upd, FALSE, in.upd)]
             ELSE [agent |-> a1, deploy |-> d1,
                   res |-> ORes("agent", "status", in.upd, FALSE, "none")]

\* The API outcomes one Agent Reconcile call can meet: only the calls it
\* makes on its path have an outcome.
AgentReconcileInputs ==
    LET resolves == agentCR.exists /\ agentCR.toolPackages # <<>>
        toolGets == IF resolves /\ toolCR.exists THEN {"ok", "fail"} ELSE {"ok"}
    IN  UNION {
          LET failed == resolveToolPackages(agentCR, toolCR, g) # "none"
              applies == IF agentCR.exists /\ ~failed
                         THEN {"ok"} \cup ApplyErrors
                         ELSE {"ok"}
          IN  UNION {
                LET main == agentCR.exists /\ ~failed /\ ap = "ok"
                    dgets == IF main THEN {"ok", "fail"} ELSE {"ok"}
                    upds == IF agentCR.exists /\ (failed \/ main)
                            THEN UpdateOutcomes ELSE {"ok"}
                IN  {[toolGet |-> g, apply |-> ap, deployGet |-> dg, upd |-> u] :
                       dg \in dgets, u \in upds}
                : ap \in applies}
          : g \in toolGets}

AgentReconcile ==
    \E in \in AgentReconcileInputs :
        LET out == AgentReconcileOp(agentCR, toolCR, deploy, in) IN
        /\ agentCR' = out.agent
        /\ deploy' = out.deploy
        /\ olast' = out.res
        /\ UNCHANGED <<toolCR, notAgent>>

\* ToolReconciler.validateSpec: spec.image is required.
validateSpec(t) == IF t.image = "" THEN "imageRequired" ELSE "none"

\* ToolReconciler.Reconcile.
ToolReconcileOp(t, upd) ==
    IF ~t.exists
    THEN [tool |-> t, res |-> ORes("tool", "notFound", "none", FALSE, "none")]
    ELSE IF validateSpec(t) # "none"
    THEN IF upd # "ok"
         THEN [tool |-> t, res |-> ORes("tool", "validation", upd, FALSE, upd)]
         ELSE [tool |-> [t EXCEPT !.ready = FALSE, !.reason = "ValidationFailed"],
               res |-> ORes("tool", "validation", upd, FALSE, "none")]
    ELSE IF upd # "ok"
         THEN [tool |-> t, res |-> ORes("tool", "status", upd, FALSE, upd)]
         ELSE [tool |-> [t EXCEPT !.ready = TRUE, !.reason = "Validated"],
               res |-> ORes("tool", "status", upd, FALSE, "none")]

ToolReconcile ==
    \E upd \in (IF toolCR.exists THEN UpdateOutcomes ELSE {"ok"}) :
        LET out == ToolReconcileOp(toolCR, upd) IN
        /\ toolCR' = out.tool
        /\ olast' = out.res
        /\ UNCHANGED <<agentCR, deploy, notAgent>>

\* The environment: the user edits the Agent's spec,
SetAgentSpec ==
    /\ agentCR.exists
    /\ \E tools \in ToolLists, pkgs \in PackageLists, replicas \in ReplicaSpecs :
         /\ <<tools, pkgs, replicas>> # <<agentCR.tools, agentCR.toolPackages, agentCR.replicas>>
         /\ agentCR' = [agentCR EXCEPT !.tools = tools, !.toolPackages = pkgs,
                                   !.replicas = replicas]
    /\ olast' = NoORes
    /\ UNCHANGED <<toolCR, deploy, notAgent>>

\* deletes the Agent (its owned Deployment is collected with it),
DeleteAgent ==
    /\ agentCR.exists
    /\ agentCR' = [agentCR EXCEPT !.exists = FALSE]
    /\ deploy' = NoDeployment
    /\ olast' = NoORes
    /\ UNCHANGED <<toolCR, notAgent>>

\* creates, edits or deletes the Tool,
SetTool ==
    /\ \E t \in {NewTool(""), NewTool("img"), [NewTool("") EXCEPT !.exists = FALSE]} :
         /\ <<t.exists, t.image>> # <<toolCR.exists, toolCR.image>>
         /\ toolCR' = IF t.exists /\ toolCR.exists THEN [toolCR EXCEPT !.image = t.image] ELSE t
    /\ olast' = NoORes
    /\ UNCHANGED <<agentCR, deploy, notAgent>>

\* and the deployment controller reports the pods that are ready.
DeploymentStatus ==
    /\ deploy.exists
    /\ \E n \in 0..MaxReplicas :
         /\ n # deploy.readyReplicas
         /\ deploy' = [deploy EXCEPT !.readyReplicas = n]
    /\ olast' = NoORes
    /\ UNCHANGED <<agentCR, toolCR, notAgent>>

NoAgent ==
    /\ agentCR = [NewAgent(<<>>, <<>>, <<>>) EXCEPT !.exists = FALSE]
    /\ toolCR = [NewTool("") EXCEPT !.exists = FALSE]
    /\ deploy = NoDeployment
    /\ olast = NoORes

InitAgentVars ==
    /\ \E tools \in ToolLists, pkgs \in PackageLists, replicas \in ReplicaSpecs :
         agentCR = NewAgent(tools, pkgs, replicas)
    /\ toolCR \in {NewTool(""), NewTool("img"), [NewTool("") EXCEPT !.exists = FALSE]}
    /\ deploy = NoDeployment
    /\ olast = NoORes

NextAgent ==
    \/ AgentReconcile
    \/ ToolReconcile
    \/ SetAgentSpec
    \/ DeleteAgent
    \/ SetTool
    \/ DeploymentStatus

(***************************************************************************)
(* The operator's Route controller (RouteReconciler): it resolves the      *)
(* Agents a Route refers to, compiles the Route into a routes.RouteConfig  *)
(* and publishes it in the gateway's routes ConfigMap.  Both sides declare *)
(* the same RouteConfig types with the same JSON tags, so the blob the     *)
(* gateway unmarshals carries the fields compileRouteConfig set.           *)
(***************************************************************************)
MaxRules == 2       \* most rules in a Route's spec

RouteNamespace == "ns"
AgentNames == {"a1", "a2"}

\* A RouteBackend: an AgentRef as written (namespace "" when omitted) and
\* an optional weight.
RouteBackend(name, namespace, weight) ==
    [agentRef |-> [name |-> name, namespace |-> namespace], weight |-> weight]

\* The rules a Route's spec is built from (RouteRule; priority is optional).
RulePalette == <<
    [name |-> "byAgent", priority |-> <<10>>, match |-> RouteMatch("a1", "", "", {}),
     backends |-> <<RouteBackend("a1", "", <<>>)>>],
    [name |-> "cost", priority |-> <<10>>, match |-> RouteMatch("", "re_cost", "", {}),
     backends |-> <<RouteBackend("a1", "ns", <<50>>), RouteBackend("a2", "", <<50>>)>>],
    [name |-> "tenant", priority |-> <<20>>, match |-> RouteMatch("", "", "t1", {}),
     backends |-> <<RouteBackend("a2", "", <<>>)>>],
    [name |-> "bad", priority |-> <<>>, match |-> RouteMatch("", "re_bad", "", {}),
     backends |-> <<RouteBackend("a1", "", <<>>)>>],
    [name |-> "any", priority |-> <<>>, match |-> RouteMatch("", "", "", {}),
     backends |-> <<RouteBackend("a2", "other", <<>>), RouteBackend("a1", "", <<0>>)>>]
  >>

\* spec.defaults: nil, or RouteDefaults with an optional backend.
DefaultsPalette == {
    <<>>,
    <<[backend |-> <<>>, rejectUnmatched |-> <<TRUE>>]>>,
    <<[backend |-> <<RouteBackend("a1", "ns", <<>>)>>, rejectUnmatched |-> <<>>]>>
  }

\* The Route specs explored: up to MaxRules different rules in any order.
RouteSpecs ==
    LET picks == UNION {[1..n -> 1..Len(RulePalette)] : n \in 0..MaxRules}
        distinct(p) == \A i, j \in DOMAIN p : i # j => p[i] # p[j]
    IN  {[rules |-> [i \in DOMAIN p |-> RulePalette[p[i]]], defaults |-> d] :
            p \in {q \in picks : distinct(q)}, d \in DefaultsPalette}

NewRoute(spec) ==
    [rules |-> spec.rules, defaults |-> spec.defaults,
     ready |-> FALSE, reason |-> "", activeRules |-> 0, backends |-> <<>>]

RECURSIVE Flatten(_)
Flatten(ss) == IF ss = <<>> THEN <<>> ELSE Head(ss) \o Flatten(Tail(ss))

\* The AgentRefs of a Route in the order resolveBackends visits them: every
\* rule's backends, then the default backend.
AllRefs(r) ==
    Flatten([i \in 1..Len(r.rules) |->
                [k \in 1..Len(r.rules[i].backends) |-> r.rules[i].backends[k].agentRef]])
    \o (IF Len(r.defaults) > 0 /\ Len(r.defaults[1].backend) > 0
        THEN <<r.defaults[1].backend[1].agentRef>> ELSE <<>>)

\* The reference's namespace is used as written (a variant).
NamespaceAsWritten(namespace) == namespace

\* "if ns == "" { ns = route.Namespace }"
NamespaceOrRoutes(namespace) == IF namespace = "" THEN RouteNamespace ELSE namespace

\* r.Get of an Agent and the BackendStatus built from it.  Agents exist in
\* the Route's namespace only; a Get that fails reads as not ready.
BackendStatusOf(ags, ref) ==
    LET ns == NamespaceOrRoutes(ref.namespace)
        found == ns = RouteNamespace /\ ref.name \in AgentNames /\ ags[ref.name] # "missing"
    IN  [agentRef |-> [name |-> ref.name, namespace |-> ns],
         ready |-> found /\ ags[ref.name] = "ready",
         endpoint |-> IF found THEN ref.name ELSE ""]

\* resolveBackends: one BackendStatus per key not seen before, the key being
\* AgentRef.Namespace + "/" + AgentRef.Name of the reference as written.
resolveBackends(r, ags) ==
    LET refs == AllRefs(r)
        unseen == {i \in 1..Len(refs) : \A j \in 1..(i - 1) : refs[j] # refs[i]}
        nth(k) == CHOOSE i \in unseen : Cardinality({j \in unseen : j < i}) = k - 1
        backends == [k \in 1..Cardinality(unseen) |-> BackendStatusOf(ags, refs[nth(k)])]
    IN  [backends |-> backends,
         allReady |-> \A k \in 1..Len(backends) : backends[k].ready]

\* sort.Slice with less = "Priority greater": any order of the rules with
\* the priorities descending; the order of equal elements is not specified
\* (sort.Slice is not a stable sort).
SliceSortOrders(prios) ==
    LET n == Len(prios)
    IN  {p \in [1..n -> 1..n] :
            /\ \A i, j \in 1..n : i # j => p[i] # p[j]
            /\ \A i, j \in 1..n : i < j => prios[p[i]] >= prios[p[j]]}

\* compileRouteConfig, with the order its sort leaves the rules in.
compileRouteConfig(r, backends, order) ==
    LET \* backendMap[key]: the last status stored under the key, or the zero value
        lookup(ns, name) ==
            LET hits == {k \in 1..Len(backends) :
                           backends[k].agentRef = [name |-> name, namespace |-> ns]}
            IN  IF hits = {} THEN [ready |-> FALSE, endpoint |-> ""]
                ELSE backends[CHOOSE k \in hits : \A l \in hits : l <= k]
        compileBackend(b) ==
            LET ns == NamespaceOrRoutes(b.agentRef.namespace)
                st == lookup(ns, b.agentRef.name)
            IN  [agentName |-> b.agentRef.name, namespace |-> ns, endpoint |-> st.endpoint,
                 weight |-> IF b.weight = <<>> THEN 100 ELSE b.weight[1],
                 ready |-> st.ready]
        compiled == [i \in 1..Len(r.rules) |->
            Rule(r.rules[i].name,
                 IF r.rules[i].priority = <<>> THEN 0 ELSE r.rules[i].priority[1],
                 r.rules[i].match,
                 [k \in 1..Len(r.rules[i].backends) |-> compileBackend(r.rules[i].backends[k])])]
        d == r.defaults
    IN  [json |-> TRUE,
         rules |-> [k \in 1..Len(compiled) |-> compiled[order[k]]],
         defaults |->
            IF d = <<>> THEN <<>>
            ELSE <<Defaults(IF d[1].backend = <<>> THEN <<>>
                            ELSE <<compileBackend(d[1].backend[1])>>,
                            100, 50, 30000,
                            IF d[1].rejectUnmatched = <<>> THEN FALSE
                            ELSE d[1].rejectUnmatched[1])>>]

\* The priorities compileRouteConfig sorts by.
PrioritiesOf(r) ==
    [i \in 1..Len(r.rules) |->
        IF r.rules[i].priority = <<>> THEN 0 ELSE r.rules[i].priority[1]]

\* RouteReconciler.Reconcile.  in.order is what the sort did, in.cm the
\* outcome of reconcileRoutesConfigMap, in.upd of the status update.
RouteReconcileOp(r, ags, c, in) ==
    LET res == resolveBackends(r, ags)
        config == compileRouteConfig(r, res.backends, in.order)
        failed == [r EXCEPT !.backends = res.backends, !.ready = FALSE,
                            !.reason = "ConfigMapUpdateFailed"]
        done == [r EXCEPT !.backends = res.backends, !.ready = res.allReady,
                          !.activeRules = Len(r.rules),
                          !.reason = IF res.allReady THEN "AllBackendsReady"
                                     ELSE "BackendsNotReady"]
        handler == IF in.cm = "ok" THEN "status" ELSE "configmap"
    IN  [route |-> IF in.upd # "ok" THEN r ELSE IF in.cm = "ok" THEN done ELSE failed,
         cm |-> IF in.cm = "ok" THEN [exists |-> TRUE, config |-> config] ELSE c,
         res |-> IF in.upd = "conflict" THEN ORes("route", handler, in.upd, TRUE, "none")
                 ELSE IF in.upd = "error" THEN ORes("route", handler, in.upd, FALSE, in.upd)
                 ELSE ORes("route", handler, in.upd, FALSE,
                           IF in.cm = "ok" THEN "none" ELSE "configmap")]

RouteReconcile ==
    \E order \in SliceSortOrders(PrioritiesOf(route)),
       cmw \in {"ok", "fail"}, upd \in UpdateOutcomes :
        LET out == RouteReconcileOp(route, agents, cm,
                                    [order |-> order, cm |-> cmw, upd |-> upd]) IN
        /\ route' = out.route
        /\ cm' = out.cm
        /\ olast' = out.res
        /\ UNCHANGED <<route2, agents, notRoute>>

\* A second Route: the same object kind, with the flag of its existence.
SecondRoute(spec, exists) == [exists |-> exists] @@ NewRoute(spec)
NoRoute2 == SecondRoute([rules |-> <<>>, defaults |-> <<>>], FALSE)

\* Reconcile for the second Route's key.  When the Get is NotFound the call
\* drops the Route's metrics and returns; otherwise it is the same handler.
Route2Reconcile ==
    IF ~route2.exists
    THEN /\ olast' = ORes("route", "notfound", "none", FALSE, "none")
         /\ UNCHANGED <<rvars, notRoute>>
    ELSE \E order \in SliceSortOrders(PrioritiesOf(route2)),
            cmw \in {"ok", "fail"}, upd \in UpdateOutcomes :
             LET out == RouteReconcileOp(route2, agents, cm,
                                         [order |-> order, cm |-> cmw, upd |-> upd]) IN
             /\ route2' = out.route
             /\ cm' = out.cm
             /\ olast' = out.res
             /\ UNCHANGED <<route, agents, notRoute>>

\* A user deletes the second Route (it carries no finalizer).
Route2Deleted ==
    /\ route2.exists
    /\ route2' = [route2 EXCEPT !.exists = FALSE]
    /\ olast' = NoORes
    /\ UNCHANGED <<route, agents, cm, notRoute>>

\* The environment: the Agent controller reports a new readiness for an
\* Agent, or the Agent is deleted or created.  One agent changes during a
\* behaviour; the other keeps the state it starts in.
Changing == {"a1"}

AgentChanges ==
    /\ \E a \in Changing, st \in {"missing", "notReady", "ready"} :
         /\ st # agents[a]
         /\ agents' = [agents EXCEPT ![a] = st]
    /\ olast' = NoORes
    /\ UNCHANGED <<route, route2, cm, notRoute>>

NoRoute ==
    /\ route = NewRoute([rules |-> <<>>, defaults |-> <<>>])
    /\ route2 = NoRoute2
    /\ agents = [a \in AgentNames |-> "missing"]
    /\ cm = [exists |-> FALSE, config |-> NoConfig]

InitRouteVars ==
    /\ \E spec \in RouteSpecs : route = NewRoute(spec)
    /\ route2 = NoRoute2
    /\ agents \in [AgentNames -> {"missing", "notReady", "ready"}]
    /\ cm = [exists |-> FALSE, config |-> NoConfig]

NextRoute ==
    \/ RouteReconcile
    \/ AgentChanges

\* Two Routes in one cluster, with rules of different names.
FirstRouteSpecs ==
    {[rules |-> <<RulePalette[1]>>, defaults |-> <<>>],
     [rules |-> <<RulePalette[3]>>,
      defaults |-> <<[backend |-> <<>>, rejectUnmatched |-> <<TRUE>>]>>]}
SecondRouteSpecs ==
    {[rules |-> <<RulePalette[2]>>, defaults |-> <<>>],
     [rules |-> <<RulePalette[5]>>,
      defaults |-> <<[backend |-> <<RouteBackend("a1", "ns", <<>>)>>,
                      rejectUnmatched |-> <<>>]>>]}

InitRoutesVars ==
    /\ \E spec \in FirstRouteSpecs : route = NewRoute(spec)
    /\ \E spec \in SecondRouteSpecs : route2 = SecondRoute(spec, TRUE)
    /\ agents \in [AgentNames -> {"notReady", "ready"}]
    /\ cm = [exists |-> FALSE, config |-> NoConfig]

NextRoutes ==
    \/ RouteReconcile
    \/ Route2Reconcile
    \/ Route2Deleted
    \/ AgentChanges

(***************************************************************************)
(* The gateway's MCP endpoint (gateway/internal/mcp/handler.go) and the    *)
(* Agent watcher behind it (gateway/internal/k8s/watcher.go).  Tool names  *)
(* are sequences of the pieces between their underscores, so <<"a1",       *)
(* "search">> is "a1_search"; a synthesized query is the argument taken or *)
(* the set of "k: v" parts joined.                                         *)
(***************************************************************************)
NumSessions == 2    \* streaming sessions opened in a behaviour
MaxCalls == 1       \* tools/call forwards in flight at once

Sessions == 1..NumSessions

ErrCodeParse == -32700
ErrCodeMethodNotFound == -32601
ErrCodeInvalidParams == -32602
ErrCodeInternal == -32603

\* k8s.Agent as the watcher caches it, for the one agent name watched.
\* The cache entry "ns/a1".  twin is the entry "other/a1", an Agent of the
\* same name in another namespace ("none", "notReady" or "ready"; it has no
\* tools); first is the one of the two that a sync.Map Range visits first.
CachedAgent(ready, availableTools, specTools) ==
    [found |-> TRUE, ready |-> ready, availableTools |-> availableTools,
     specTools |-> specTools, namespace |-> "ns", twin |-> "none", first |-> "own"]
NotCached ==
    [found |-> FALSE, ready |-> FALSE, availableTools |-> <<>>, specTools |-> <<>>,
     namespace |-> "", twin |-> "none", first |-> "own"]
CacheValues == {NotCached,
                CachedAgent(FALSE, <<>>, <<"search">>),
                CachedAgent(TRUE, <<>>, <<>>),
                CachedAgent(TRUE, <<"search">>, <<"search">>),
                [CachedAgent(TRUE, <<"search">>, <<"search">>) EXCEPT !.twin = "ready"]}

\* The cache as one Range over it presents it: the order in which a
\* sync.Map visits its keys is not specified and differs between calls.
RangeViews(c) ==
    IF c.twin = "none" THEN {c} ELSE {[c EXCEPT !.first = f] : f \in {"own", "twin"}}

\* The entry "other/a1".
TwinAgent(c) ==
    [CachedAgent(c.twin = "ready", <<>>, <<>>) EXCEPT !.namespace = "other"]

\* AgentWatcher.GetByName for a parsed agent name: the first entry the
\* Range visits whose name is the one asked for.
GetByName(c, agentName) ==
    IF agentName # <<"a1">> THEN NotCached
    ELSE IF c.found /\ c.twin # "none" /\ c.first = "twin" THEN TwinAgent(c)
    ELSE c

\* The names buildToolsList lists for one ready agent.
ToolNamesOf(a) ==
    IF ~(a.found /\ a.ready) THEN {}
    ELSE LET agentTools == IF Len(a.availableTools) = 0 THEN a.specTools
                           ELSE a.availableTools
         IN  IF Len(agentTools) > 0
             THEN {<<"a1", agentTools[k]>> : k \in 1..Len(agentTools)}
             ELSE {<<"a1">>}

\* buildToolsList / handleListTools: the names listed for the ready agents.
buildToolsList(c) ==
    ToolNamesOf(c) \cup (IF c.twin = "none" THEN {} ELSE ToolNamesOf(TwinAgent(c)))

\* The JSON-RPC requests explored.  params is "invalid" when it does not
\* unmarshal into CallToolParams; "#undecodable" is a body that is not JSON.
ArgumentMaps == {<<>>,
                 [k \in {"query"} |-> "w"],
                 [k \in {"question"} |-> "w"],
                 [k \in {"query", "question"} |-> IF k = "query" THEN "" ELSE "w"],
                 [k \in {"topic"} |-> "w"]}
ToolCalls ==
    {<<<<"a1">>, a>> : a \in ArgumentMaps}
    \cup {<<n, <<>>>> : n \in {<<"a1", "search">>, <<"zz">>, <<"", "a1">>}}
MCPRequests ==
    {[method |-> m, params |-> "ok", name |-> <<>>, args |-> <<>>] :
        m \in {"initialize", "initialized", "tools/list", "ping", "bogus", "#undecodable"}}
    \cup {[method |-> "tools/call", params |-> "ok", name |-> c[1], args |-> c[2]] :
            c \in ToolCalls}
    \cup {[method |-> "tools/call", params |-> "invalid", name |-> <<>>, args |-> <<>>]}

\* "if idx := strings.Index(params.Name, "_"); idx > 0 { agentName = params.Name[:idx] }"
AgentNameOf(name) == IF Len(name) > 1 /\ name[1] # "" THEN <<name[1]>> ELSE name

QueryKeys == <<"query", "question", "request", "description">>

\* "k: v" for every non-empty string argument, joined.
JoinArguments(args) ==
    [text |-> "", parts |-> {<<k, args[k]>> : k \in {x \in DOMAIN args : args[x] # ""}}]

\* handleCallToolHTTP: the first of the keys whose value is a non-empty string.
BuildQueryHTTP(args) ==
    LET hits == {i \in 1..Len(QueryKeys) :
                    QueryKeys[i] \in DOMAIN args /\ args[QueryKeys[i]] # ""}
    IN  IF hits # {} THEN [text |-> args[QueryKeys[MinOf(hits)]], parts |-> {}]
        ELSE JoinArguments(args)

\* handleCallTool: the first of the keys that is present with a string value.
BuildQuerySSE(args) ==
    LET present == {i \in 1..Len(QueryKeys) : QueryKeys[i] \in DOMAIN args}
        q == IF present # {} THEN args[QueryKeys[MinOf(present)]] ELSE ""
    IN  IF q = "" THEN JoinArguments(args) ELSE [text |-> q, parts |-> {}]

\* A JSON-RPC answer: a result, an error with its code, or none; for a tool
\* call also the query forwarded to the agent.
Resp(kind, code, what, tools, query, isError) ==
    [kind |-> kind, code |-> code, what |-> what, tools |-> tools, query |-> query,
     isError |-> isError, to |-> ""]
NoQuery == [text |-> "", parts |-> {}]
Result(what) == Resp("result", 0, what, {}, NoQuery, FALSE)
ErrorResp(code) == Resp("error", code, "", {}, NoQuery, FALSE)
NoResp == Resp("none", 0, "", {}, NoQuery, FALSE)

\* tools/call on either transport; fwd is what forwardToAgent returns and
\* the answer's field to names the agent whose endpoint was called.
CallTool(c, req, fwd, query, missingCode) ==
    LET a == GetByName(c, AgentNameOf(req.name)) IN
    IF req.params # "ok" THEN ErrorResp(missingCode)
    ELSE IF ~a.found THEN ErrorResp(missingCode)
    ELSE IF ~a.ready THEN ErrorResp(ErrCodeInternal)
    ELSE [Resp("result", 0, "call", {}, query, fwd # "ok") EXCEPT !.to = a.namespace]

\* HandleHTTP (POST /mcp).
HTTPResponse(c, req, fwd) ==
    CASE req.method = "#undecodable" -> ErrorResp(ErrCodeParse)
      [] req.method = "initialize" -> Result("initialize")
      [] req.method = "initialized" -> Result("empty")
      [] req.method = "tools/list" -> Resp("result", 0, "tools", buildToolsList(c), NoQuery, FALSE)
      [] req.method = "tools/call" ->
            CallTool(c, req, fwd, BuildQueryHTTP(req.args), ErrCodeInternal)
      [] req.method = "ping" -> Result("empty")
      [] OTHER -> ErrorResp(ErrCodeMethodNotFound)

\* HandleMessage (POST /mcp/message?sessionId=N) for a registered session:
\* the message sent on the session's event stream.
SSEResponse(c, req, fwd) ==
    CASE req.method = "#undecodable" -> ErrorResp(ErrCodeParse)
      [] req.method = "initialize" -> Result("initialize")
      [] req.method = "initialized" -> NoResp
      [] req.method = "tools/list" -> Resp("result", 0, "tools", buildToolsList(c), NoQuery, FALSE)
      [] req.method = "tools/call" ->
            CallTool(c, req, fwd, BuildQuerySSE(req.args), ErrCodeInvalidParams)
      [] req.method = "ping" -> Result("empty")
      [] OTHER -> ErrorResp(ErrCodeMethodNotFound)

\* A session: HandleSSE's position ("none" before the GET, "open" while it
\* waits in its select, "ended" after it returned), the client's side of
\* the connection, and what was written to the event stream.
NoSession ==
    [phase |-> "none", registered |-> FALSE, initialized |-> FALSE, connected |-> FALSE,
     pings |-> 0, heard |-> <<>>]

\* HandleSSE up to its select: the session is stored and the endpoint event sent.
HandleSSE(s) ==
    /\ sessions[s].phase = "none"
    /\ \A t \in Sessions : t < s => sessions[t].phase # "none"
    /\ sessions' = [sessions EXCEPT ![s] = [NoSession EXCEPT !.phase = "open",
                                              !.registered = TRUE, !.connected = TRUE]]
    /\ mlast' = NoResp
    /\ UNCHANGED <<cache, wpend, mcalls, notMCP>>

\* The client goes away; the request's context is then done.
ClientDisconnects(s) ==
    /\ sessions[s].phase = "open"
    /\ sessions[s].connected
    /\ sessions' = [sessions EXCEPT ![s].connected = FALSE]
    /\ mlast' = NoResp
    /\ UNCHANGED <<cache, wpend, mcalls, notMCP>>

\* The select takes "case <-r.Context().Done()"; the session is deleted.
\* (Nothing closes sess.done, so that case is never ready.)
SelectCtxDone(s) ==
    /\ sessions[s].phase = "open"
    /\ ~sessions[s].connected
    /\ sessions' = [sessions EXCEPT ![s] = [NoSession EXCEPT !.phase = "ended",
                                              !.pings = sessions[s].pings]]
    /\ mlast' = NoResp
    /\ UNCHANGED <<cache, wpend, mcalls, notMCP>>

\* The select takes "case <-ticker.C": one ping is sent, and the code after
\* the select deletes the session and returns.
SelectTicker(s) ==
    /\ sessions[s].phase = "open"
    /\ sessions' = [sessions EXCEPT ![s] = [NoSession EXCEPT !.phase = "ended",
                                              !.connected = sessions[s].connected,
                                              !.pings = sessions[s].pings + 1]]
    /\ mlast' = NoResp
    /\ UNCHANGED <<cache, wpend, mcalls, notMCP>>

\* A tools/call that gets as far as forwardToAgent: the params decode and the
\* agent named is cached and ready.
ReachesWorker(c, req) ==
    /\ req.method = "tools/call"
    /\ req.params = "ok"
    /\ GetByName(c, AgentNameOf(req.name)).found
    /\ GetByName(c, AgentNameOf(req.name)).ready

\* by[s] counts the streaming forwards whose handler loaded session s.
NoCalls == [http |-> 0, sse |-> 0, by |-> [s \in Sessions |-> 0]]
InFlight(calls) == calls.http + calls.sse

\* The handler is inside h.httpClient.Do: the request sent to the worker.
Forwarding(resp) == [resp EXCEPT !.kind = "forward"]

\* HandleMessage: 404 when the session is not registered, else the answer
\* goes to the stream and the POST gets 202.  A tools/call that reaches the
\* worker stays in forwardToAgent until ForwardReturns.
HandleMessage(s) ==
    /\ \E req \in MCPRequests, c \in RangeViews(cache) :
         IF ~sessions[s].registered
         THEN /\ mlast' = [transport |-> "sse", status |-> 404, resp |-> NoResp]
              /\ UNCHANGED <<sessions, mcalls>>
         ELSE IF ReachesWorker(c, req)
         THEN /\ InFlight(mcalls) < MaxCalls
              /\ mcalls' = [mcalls EXCEPT !.sse = @ + 1, !.by[s] = @ + 1]
              /\ mlast' = [transport |-> "sse", status |-> 0,
                           resp |-> Forwarding(SSEResponse(c, req, "ok"))]
              /\ UNCHANGED sessions
         ELSE /\ mlast' = [transport |-> "sse", status |-> 202,
                           resp |-> SSEResponse(c, req, "ok")]
              /\ sessions' = [sessions EXCEPT ![s].initialized =
                                 @ \/ req.method = "initialized"]
              /\ UNCHANGED mcalls
    /\ UNCHANGED <<cache, wpend, notMCP>>

HandleHTTP ==
    /\ \E req \in MCPRequests, c \in RangeViews(cache) :
         IF ReachesWorker(c, req)
         THEN /\ InFlight(mcalls) < MaxCalls
              /\ mcalls' = [mcalls EXCEPT !.http = @ + 1]
              /\ mlast' = [transport |-> "http", status |-> 0,
                           resp |-> Forwarding(HTTPResponse(c, req, "ok"))]
         ELSE /\ mlast' = [transport |-> "http", status |-> 200,
                           resp |-> HTTPResponse(c, req, "ok")]
              /\ UNCHANGED mcalls
    /\ UNCHANGED <<cache, sessions, wpend, notMCP>>

\* forwardToAgent returns to handleCallTool / handleCallToolHTTP, which
\* answers with the worker's text or with isError; handleCallTool writes
\* the answer to the stream of the session its HandleMessage loaded.
ForwardReturns(transport) ==
    /\ mcalls[transport] > 0
    /\ \E s \in Sessions :
         /\ IF transport = "sse" THEN mcalls.by[s] > 0 ELSE s = 1
         /\ mcalls' = [mcalls EXCEPT ![transport] = @ - 1,
                                     !.by[s] = IF transport = "sse" THEN @ - 1 ELSE @]
    /\ \E fwd \in {"ok", "error"} :
         mlast' = [transport |-> transport,
                   status |-> IF transport = "http" THEN 200 ELSE 202,
                   resp |-> Resp("result", 0, "call", {}, NoQuery, fwd # "ok")]
    /\ UNCHANGED <<cache, sessions, wpend, notMCP>>

\* onAdd / onUpdate / onDelete, first half: the informer hands over an
\* Agent event and the cache is updated.
WatcherStore ==
    /\ wpend = <<>>
    /\ \E c \in CacheValues :
         /\ cache' = c
         /\ wpend' = <<c>>
    /\ mlast' = NoResp
    /\ UNCHANGED <<sessions, mcalls, notMCP>>

\* NotifyToolsListChanged: the sessions in the map whose flag is set.
RangeInitialized(ss) == {s \in Sessions : ss[s].registered /\ ss[s].initialized}

\* Second half: w.onChange() sends notifications/tools/list_changed.
\* "if sess.initialized" reads, with no lock and no other synchronisation,
\* the field HandleMessage writes from another goroutine: for a session whose
\* flag was set the read yields the value written or the one before it.
WatcherNotify ==
    /\ wpend # <<>>
    /\ \E seen \in SUBSET RangeInitialized(sessions) :
         sessions' = [s \in Sessions |->
                        IF s \in seen THEN [sessions[s] EXCEPT !.heard = <<cache>>]
                        ELSE sessions[s]]
    /\ wpend' = <<>>
    /\ mlast' = NoResp
    /\ UNCHANGED <<cache, mcalls, notMCP>>

NoMCP ==
    /\ cache = NotCached
    /\ sessions = [s \in Sessions |-> NoSession]
    /\ wpend = <<>>
    /\ mlast = NoResp
    /\ mcalls = NoCalls

InitMCPVars ==
    /\ cache \in CacheValues
    /\ sessions = [s \in Sessions |-> NoSession]
    /\ wpend = <<>>
    /\ mlast = NoResp
    /\ mcalls = NoCalls

NextMCP ==
    \/ \E s \in Sessions : HandleSSE(s)
    \/ \E s \in Sessions : ClientDisconnects(s)
    \/ \E s \in Sessions : SelectCtxDone(s)
    \/ \E s \in Sessions : SelectTicker(s)
    \/ \E s \in Sessions : HandleMessage(s)
    \/ HandleHTTP
    \/ \E transport \in {"http", "sse"} : ForwardReturns(transport)
    \/ WatcherStore
    \/ WatcherNotify

(***************************************************************************)
(* The specifications.                                                     *)
(***************************************************************************)
InitBreaker == InitBreakerVars /\ NoTask /\ NoAgent /\ NoRoute /\ NoMCP
InitGateway == InitGatewayVars /\ NoTask /\ NoAgent /\ NoRoute /\ NoMCP
InitTask == InitTaskVars /\ NoGateway /\ NoAgent /\ NoRoute /\ NoMCP
InitAgent == InitAgentVars /\ NoGateway /\ NoTask /\ NoRoute /\ NoMCP
InitRoute == InitRouteVars /\ NoGateway /\ NoTask /\ NoAgent /\ NoMCP
InitMCP == InitMCPVars /\ NoGateway /\ NoTask /\ NoAgent /\ NoRoute

SpecBreaker == InitBreaker /\ [][NextBreaker]_vars

\* A parked Acquire's timer expires after queueTimeout, the Go scheduler runs
\* a goroutine whose select has a ready case, and b.mu is handed to a
\* goroutine that waits for it.
BreakerFairness ==
    \A r \in Reqs :
        /\ WF_vars(TimerFires(r))
        /\ WF_vars(SelectFire(r))
        /\ WF_vars(ExitCommit(r))
SpecBreakerLive == InitBreaker /\ [][NextBreaker]_vars /\ BreakerFairness
SpecGateway == InitGateway /\ [][NextGateway]_vars
SpecTask == InitTask /\ [][NextTask]_vars
SpecAgent == InitAgent /\ [][NextAgent]_vars
SpecRoute == InitRoute /\ [][NextRoute]_vars
InitRoutes == InitRoutesVars /\ NoGateway /\ NoTask /\ NoAgent /\ NoMCP
SpecRoutes == InitRoutes /\ [][NextRoutes]_vars
SpecMCP == InitMCP /\ [][NextMCP]_vars

(***************************************************************************)
(* Admission pool properties.                                              *)
(***************************************************************************)
LivePools == {p \in Pools : breakers[p].exists}

\* C1: at every quiescent point each pool's active count satisfies
\* 0 <= active <= maxConcurrent.
C1_ActiveWithinLimit ==
    Quiescent =>
        \A p \in LivePools :
            0 <= breakers[p].active /\ breakers[p].active <= breakers[p].maxConcurrent

\* C2: at every quiescent point each pool's waiting count satisfies
\* 0 <= waiting <= maxQueueSize.
C2_WaitingWithinLimit ==
    Quiescent =>
        \A p \in LivePools :
            0 <= breakers[p].waiting /\ breakers[p].waiting <= breakers[p].maxQueue

\* C2 witness: the queue is full (and non-empty) at a quiescent point and a
\* further caller has just been rejected with ErrQueueFull.
C2_Witness ==
    /\ Quiescent
    /\ \E p \in LivePools :
          breakers[p].maxQueue > 0 /\ breakers[p].waiting = breakers[p].maxQueue
    /\ \E r \in DOMAIN rq : rq[r].acqErr = "ErrQueueFull"

\* C3: a waiting Acquire leaves by cancellation whenever its context is done,
\* and by timeout whenever the timer has fired and the context is not done,
\* whatever else is ready.
C3_ExitPrecedence ==
    \A r \in DOMAIN rq :
        rq[r].pc = "exiting" =>
            /\ ("cancel" \in rq[r].ready => rq[r].exit = "cancel")
            /\ (("cancel" \notin rq[r].ready /\ "timeout" \in rq[r].ready)
                    => rq[r].exit = "timeout")

(***************************************************************************)
(* Gateway request properties.                                             *)
(***************************************************************************)
\* C6: every /v1/invoke request is served from one version of the table: the
\* version whose defaults (rejectUnmatched) decide the no-match answer is the
\* version the request was matched against.
C6_OneTableVersion ==
    \A r \in DOMAIN rq : rq[r].dtab # -1 => rq[r].dtab = rq[r].mtab

\* C7: a request releases at most what it acquired and acquires at most once;
\* when the handler has returned the two counts are equal; the Release comes
\* after the forward has completed (with any outcome) and on the pool that was
\* acquired; a failed Acquire is followed by no Release; a 200 response has
\* exactly one Acquire and, once returned, exactly one Release on that pool.
C7_OneReleasePerAcquire ==
    \A r \in DOMAIN rq :
        LET q == rq[r]
        IN  /\ q.releases <= q.acquires /\ q.acquires <= 1
            /\ (q.pc = "done" => q.releases = q.acquires)
            /\ (q.releases > 0 => q.fwd # "none" /\ q.relPool = q.pool)
            /\ (q.acqErr \notin {"none", "nil"} => q.acquires = 0 /\ q.releases = 0)
            /\ (q.fwd # "none" /\ q.pc = "done" => q.releases = 1)
            /\ (q.status = 200 =>
                    /\ q.acquires = 1
                    /\ (q.pc = "done" => q.releases = 1 /\ q.relPool = q.pool))

\* C7 witness: one request has returned after a forward that did not succeed
\* and has released its slot, another was refused by Acquire and has returned
\* without a Release.
C7_Witness ==
    /\ \E r \in DOMAIN rq :
          /\ rq[r].pc = "done" /\ rq[r].fwd \in {"error", "timeout", "cancelled"}
          /\ rq[r].acquires = 1 /\ rq[r].releases = 1
    /\ \E r \in DOMAIN rq :
          /\ rq[r].pc = "done" /\ rq[r].status = 503 /\ rq[r].acqErr \notin {"none", "nil"}
          /\ rq[r].releases = 0

(***************************************************************************)
(* Task controller properties.                                             *)
(***************************************************************************)
\* A step taken by Reconcile (every other step clears the result).
Reconciled == last'.handler # ""

\* C4: once a Task is Completed every later step leaves it Completed, and a
\* reconciliation of a Completed Task that is not being deleted changes
\* nothing and requests no requeue.
C4_CompletedIsTerminal ==
    [][task.phase = "Completed" =>
          /\ task'.phase = "Completed"
          /\ (Reconciled /\ ~task.deleting =>
                 task' = task /\ last'.requeue = "none" /\ ~last'.err)]_vars

\* C5: a Task enters Paused only from a phase other than Completed and
\* Failed; a Completed or Failed Task never becomes Paused.
C5_TerminalNeverPaused ==
    [][task'.phase = "Paused" /\ task.phase # "Paused" => ~TerminalPhase(task.phase)]_vars

\* A Reconcile call finds the Job of a Running Task absent (and the Task not
\* deleted, not paused and not timed out).
MissingObservation ==
    /\ Reconciled
    /\ task.exists /\ ~task.deleting /\ task.finalizer /\ ~task.paused
    /\ task.phase = "Running" /\ ~TimedOut(task)
    /\ job.state = "absent"

\* C8: with N the effective maxJobRecreations, a missing-Job observation whose
\* writes succeed increments the annotation and returns the Task to Pending
\* while the incremented counter is <= N, and otherwise fails the Task with
\* the "lost" message; the annotation changes in no other step and never
\* exceeds N, so at most N recreations are granted and the (N+1)-th
\* observation fails the Task.
C8_RecreationBudget ==
    [][LET N == MaxRecreationsOf(task.limit)
       IN  /\ task'.annot <= N
           /\ (task'.annot # task.annot =>
                 MissingObservation /\ task'.annot = task.annot + 1)
           /\ (MissingObservation /\ ~last'.err =>
                 IF task.annot + 1 <= N
                 THEN /\ task'.annot = task.annot + 1
                      /\ task'.phase = "Pending"
                      /\ last'.requeue = "delay"
                 ELSE /\ task'.annot = task.annot
                      /\ task'.phase = "Failed"
                      /\ task'.message =
                           Msg("Orchestrator Job lost %d times, giving up", N)
                      /\ last'.requeue = "none")]_vars

\* C8 witness: a Task whose Job was recreated as often as its limit allows (at
\* least once) has just been failed by one more missing observation.
C8_Witness ==
    /\ last.handler = "handleRunningPhase"
    /\ task.phase = "Failed"
    /\ task.message.text = "Orchestrator Job lost %d times, giving up"
    /\ task.annot >= 1
    /\ task.annot = MaxRecreationsOf(task.limit)

\* The finalizer is removed in this step.
FinalizerRemoved == task.finalizer /\ ~task'.finalizer

\* C9 as stated: the finalizer is removed only when the Job and the workspace
\* claim are both gone, and the phase is left as it was.
C9_FinalizerAfterCleanup ==
    [][FinalizerRemoved =>
          /\ job'.state = "absent"
          /\ ~pvc'
          /\ task'.phase = task.phase]_vars

\* C9 amended: the finalizer is removed only by deletion handling, in a call
\* that has issued a delete for the Job and for the workspace claim (whether
\* or not the deletes succeeded), and the phase is left as it was.
C9_FinalizerAfterDeletesIssued ==
    [][FinalizerRemoved =>
          /\ task.deleting
          /\ last'.handler = "handleDeletion"
          /\ last'.jobDelete /\ last'.pvcDelete
          /\ ~last'.err
          /\ task'.phase = task.phase]_vars

\* C9 witness: deletion handling has removed the finalizer although the
\* delete of the workspace claim failed and the claim still exists.
C9_Witness ==
    /\ last.handler = "handleDeletion"
    /\ last.jobDelete /\ last.pvcDelete
    /\ ~task.finalizer /\ ~task.exists
    /\ pvc

\* The Task goes from Running to Failed in this step.
RunningToFailed == task.phase = "Running" /\ task'.phase = "Failed"

\* C10 as stated: every transition from Running to Failed issues the delete
\* of the orchestration Job.
C10_FailureDeletesJob ==
    [][RunningToFailed => last'.jobDelete]_vars

\* C10 amended: a transition from Running to Failed issues the delete of the
\* Job exactly when it is the total-timeout transition; every other one (Job
\* failed, deadline exceeded, passed=false, Job lost too often) leaves the Job
\* as it is.
C10_OnlyTimeoutDeletesJob ==
    [][RunningToFailed =>
          /\ last'.jobDelete <=> (task'.reason = "TotalTimeoutExceeded")
          /\ (task'.reason # "TotalTimeoutExceeded" => job' = job)]_vars

\* C10 witness: a Task has just been failed because its Job failed, and the
\* failed Job is still there.
C10_Witness ==
    /\ last.handler = "handleRunningPhase"
    /\ task.phase = "Failed" /\ task.reason = "JobFailed"
    /\ job.state = "failed"
    /\ ~last.jobDelete

(***************************************************************************)
(* Agent and Tool controller properties.                                   *)
(***************************************************************************)
\* The latest step was an Agent Reconcile whose status write reached the store.
AgentStatusWritten == olast.ctrl = "agent" /\ olast.wrote

C12_AvailableToolsMirror ==
    AgentStatusWritten =>
        agentCR.availableTools = (IF agentCR.ready THEN agentCR.tools ELSE <<>>)

\* C17: a status update that fails with a version conflict ends the
\* reconciliation with a requeue and no error.
C17_ConflictRequeues ==
    olast.upd = "conflict" => (olast.requeue /\ olast.err = "none")

(***************************************************************************)
(* Route controller properties.                                            *)
(***************************************************************************)
\* The latest step was a Route Reconcile that published its compiled table.
TableEmitted == olast.ctrl = "route" /\ olast.handler = "status"

\* The latest step was a Route Reconcile whose status write reached the store.
RouteStatusWritten == olast.ctrl = "route" /\ olast.wrote

\* The place of the rule called name in the Route's spec.
SpecIndex(name) == CHOOSE i \in 1..Len(route.rules) : route.rules[i].name = name

\* C13: in every emitted compiled table the rules are in descending priority
\* order, rules of equal priority in the order the Route's spec lists them.
C13_RulesSortedStable ==
    cm.exists =>
        LET rules == cm.config.rules IN
        \A k, l \in 1..Len(rules) :
            k < l => \/ rules[k].priority > rules[l].priority
                     \/ /\ rules[k].priority = rules[l].priority
                        /\ SpecIndex(rules[k].name) < SpecIndex(rules[l].name)

\* C15: Route.status.backends holds at most one entry per resolved
\* (namespace, name) agent.
C15_OneEntryPerAgent ==
    RouteStatusWritten =>
        \A k, l \in 1..Len(route.backends) :
            k # l => route.backends[k].agentRef # route.backends[l].agentRef

\* The Route has a rule whose intentRegex does not compile.
HasInvalidRegex ==
    \E i \in 1..Len(route.rules) :
        /\ route.rules[i].match.intentRegex # ""
        /\ ~RegexCompiles(route.rules[i].match.intentRegex)

\* C16: a Route with a syntactically invalid intentRegex is marked not ready
\* with Ready-condition reason InvalidRegex.
C16_InvalidRegexNotReady ==
    (RouteStatusWritten /\ HasInvalidRegex) =>
        (~route.ready /\ route.reason = "InvalidRegex")

\* Evaluating a request on the Route's spec itself.
MatchRequests ==
    {InvokeRequest(a, i, t, <<>>) : a \in {"", "a1"}, i \in {"", "cost"}, t \in {"", "t1"}}

ReadyAgent(ref) ==
    LET ns == IF ref.namespace = "" THEN RouteNamespace ELSE ref.namespace
    IN  ns = RouteNamespace /\ ref.name \in AgentNames /\ agents[ref.name] = "ready"

\* The ready agents a list of RouteBackends names, as <<name, namespace>>.
Candidates(bs) ==
    LET ready == SelectSeq(bs, LAMBDA b : ReadyAgent(b.agentRef))
    IN  [k \in 1..Len(ready) |->
            <<ready[k].agentRef.name,
              IF ready[k].agentRef.namespace = "" THEN RouteNamespace
              ELSE ready[k].agentRef.namespace>>]

SpecPriority(i) ==
    IF route.rules[i].priority = <<>> THEN 0 ELSE route.rules[i].priority[1]

\* The rules whose non-empty criteria all hold and that have a ready backend,
\* and the rules the request names by agent that have a ready backend.
CriteriaPass(req) ==
    {i \in 1..Len(route.rules) :
        ruleMatches(route.rules[i], req) /\ Candidates(route.rules[i].backends) # <<>>}
AgentPass(req) ==
    {i \in 1..Len(route.rules) :
        /\ req.agent # ""
        /\ route.rules[i].match.agent = req.agent
        /\ Candidates(route.rules[i].backends) # <<>>}

SpecHit(i) ==
    [found |-> TRUE, ruleName |-> route.rules[i].name,
     backends |-> Candidates(route.rules[i].backends)]

\* When no rule is chosen: the default backend if it is ready.
SpecFallback ==
    IF /\ Len(route.defaults) > 0
       /\ Candidates(route.defaults[1].backend) # <<>>
    THEN [found |-> TRUE, ruleName |-> "_default",
          backends |-> Candidates(route.defaults[1].backend)]
    ELSE NoMatch

\* The gateway's answer on the table just published, backends as <<name, namespace>>.
TableMatch(req) ==
    LET m == MatchRules(cm.config.rules, cm.config.defaults, req)
    IN  [m EXCEPT !.backends = [k \in 1..Len(m.backends) |->
                                  <<m.backends[k].agentName, m.backends[k].namespace>>]]

\* The gateway can load the published table.
Loadable == ~UnmarshalOrCompileFails(cm.config)

\* C14 as stated: matching a request against the loaded compiled table gives
\* the rule and candidate backends of the highest-priority rule of the Route
\* whose non-empty criteria all hold and that has a ready backend.
C14_MatchesDirectEvaluation ==
    (TableEmitted /\ Loadable) =>
        \A req \in MatchRequests :
            LET pass == CriteriaPass(req)
                best == CHOOSE i \in pass : \A j \in pass :
                            \/ SpecPriority(i) > SpecPriority(j)
                            \/ SpecPriority(i) = SpecPriority(j) /\ i <= j
            IN  TableMatch(req) = (IF pass # {} THEN SpecHit(best) ELSE SpecFallback)

\* C14 as the code has it: the loaded table answers with a rule of highest
\* priority among the rules the request names by agent (when it names one
\* and such a rule has a ready backend), otherwise among the rules whose
\* non-empty criteria all hold, otherwise with the ready default backend;
\* the candidates are that rule's ready backends.
C14_MatchesInPassOrder ==
    (TableEmitted /\ Loadable) =>
        \A req \in MatchRequests :
            LET pass == IF AgentPass(req) # {} THEN AgentPass(req) ELSE CriteriaPass(req)
            IN  IF pass # {}
                THEN \E i \in pass :
                        /\ \A j \in pass : SpecPriority(i) >= SpecPriority(j)
                        /\ TableMatch(req) = SpecHit(i)
                ELSE TableMatch(req) = SpecFallback

\* A request naming an agent was answered by that agent's rule although a
\* rule of higher priority has all its criteria hold.
C14_Witness ==
    /\ TableEmitted
    /\ Loadable
    /\ \E req \in MatchRequests : \E i \in AgentPass(req), j \in CriteriaPass(req) :
          /\ SpecPriority(j) > SpecPriority(i)
          /\ TableMatch(req) = SpecHit(i)

(***************************************************************************)
(* The MCP endpoint.                                                       *)
(***************************************************************************)

\* C18: for every request and every state of the agent cache, the JSON-RPC
\* result or error (its code and, for tools/call, the query synthesized)
\* produced on the request/response transport equals the one delivered on
\* the streaming transport.
C18_TransportsAgree ==
    \A req \in MCPRequests, fwd \in {"ok", "error"} :
        HTTPResponse(cache, req, fwd) = SSEResponse(cache, req, fwd)

\* C19: a streaming session, once opened, stays registered for as long as
\* its client stays connected: no step unregisters a session whose client
\* is connected before and after it.
C19_StaysRegistered ==
    [][\A s \in Sessions :
          (sessions[s].registered /\ sessions[s].connected /\ sessions'[s].connected)
              => sessions'[s].registered]_vars

\* C20: when the watcher's handler sends its notification, every session
\* that is registered and has been initialized is sent it, and the cache
\* already holds the change the notification is about.
C20_NotifiesEveryInitialized ==
    [][(wpend # <<>> /\ wpend' = <<>>)
          => /\ cache = wpend[1]
             /\ \A s \in Sessions :
                  (sessions[s].registered /\ sessions[s].initialized)
                      => sessions'[s].heard = <<cache>>]_vars

\* The slots held over all admission pools.
RECURSIVE SumActive(_)
SumActive(ps) ==
    IF ps = {} THEN 0
    ELSE LET p == CHOOSE x \in ps : TRUE
         IN  breakers[p].active + SumActive(ps \ {p})

\* C21: every MCP tools/call forward in flight holds a slot of an admission
\* pool, acquired before the forward and released after it, so the forwards
\* in flight never outnumber the slots held.
C21_ForwardHoldsSlot == InFlight(mcalls) <= SumActive(Pools)

(***************************************************************************)
(* Admission pool: the wait queue.                                         *)
(***************************************************************************)
\* The Acquire calls that have entered the queue of pool p and not yet run
\* the critical section of their exit.
Queued(p) == {r \in DOMAIN rq : rq[r].pool = p /\ rq[r].pc \in {"waiting", "exiting"}}

\* C22: every Acquire that enters the wait queue leaves it through exactly
\* one of the exits wake, timeout and cancellation, waiting is decremented
\* exactly once when it does (so waiting always counts the queued Acquires),
\* and no waiter stays blocked forever.
C22_OneExitEachWaiter ==
    /\ [](\A p \in LivePools : breakers[p].waiting = Cardinality(Queued(p)))
    /\ [][\A r \in DOMAIN rq :
            /\ (rq[r].pc = "waiting" /\ rq'[r].pc # "waiting")
                  => /\ rq'[r].pc = "exiting"
                     /\ rq'[r].exit \in {"wake", "timeout", "cancel"}
                     /\ rq'[r].exit \in ReadyCases(breakers[rq[r].pool], rq[r])
            /\ (rq[r].pc = "exiting" /\ rq'[r].pc # "exiting")
                  => /\ breakers'[rq[r].pool].waiting = breakers[rq[r].pool].waiting - 1
                     /\ rq'[r].acqErr = AcquireError(rq[r].exit)
                     /\ rq'[r].pc = IF rq[r].exit = "wake" THEN "acqOK" ELSE "acqErr"]_vars
    /\ \A r \in Reqs : (rq[r].pc = "waiting") ~> (rq[r].pc \in {"acqOK", "acqErr"})

\* C22 witness: one waiter has left by timeout and another by cancellation,
\* both have been answered, and the queue is empty again.
C22_Witness ==
    /\ \E r \in DOMAIN rq : rq[r].pc = "acqErr" /\ rq[r].acqErr = "ErrQueueTimeout"
    /\ \E r \in DOMAIN rq : rq[r].pc = "acqErr" /\ rq[r].acqErr = "ctxErr"
    /\ \A p \in LivePools : breakers[p].waiting = 0

\* C23: a Release that finds waiting > 0 enqueues a wake token: the wake
\* channel is not full at that moment and the non-blocking send adds a token.
C23_WakeNeverDropped ==
    [][\A p \in LivePools :
          (breakers'[p].active = breakers[p].active - 1 /\ breakers[p].waiting > 0)
              => /\ breakers[p].tokens < breakers[p].cap
                 /\ breakers'[p].tokens = breakers[p].tokens + 1]_vars

(***************************************************************************)
(* Admission pool registry.                                                *)
(***************************************************************************)
\* The parameters a pool was built with.
PoolParams(b) == <<b.maxConcurrent, b.maxQueue, b.queueTimeout, b.cap>>

\* C24: a configuration update (after a table reload) replaces the defaults
\* used for new pools only: every pool that exists keeps the maxConcurrent,
\* maxQueueSize and queueTimeout it was created with, and a pool created
\* later is built from the configuration in force at its creation, which
\* once the update has run is the loaded table's.
C24_ExistingPoolsKeepParams ==
    /\ [][\A p \in Pools :
            /\ breakers[p].exists
                  => breakers'[p].exists /\ PoolParams(breakers'[p]) = PoolParams(breakers[p])
            /\ (~breakers[p].exists /\ breakers'[p].exists)
                  => PoolParams(breakers'[p]) = PoolParams(New(mdefaults))]_vars
    /\ []((wpc # "loaded" /\ Len(GetDefaults(table)) > 0)
            => mdefaults = Config(GetDefaults(table)[1].maxConcurrent,
                                  GetDefaults(table)[1].maxQueueSize,
                                  GetDefaults(table)[1].queueTimeoutMs))

\* C24 witness: the configuration has been updated, one pool still has the
\* parameters of the configuration before it and another, created since,
\* those of the new one.
C24_Witness ==
    /\ wpc # "loaded"
    /\ Len(GetDefaults(table)) > 0
    /\ \E p, q \in LivePools :
          /\ PoolParams(breakers[p]) # PoolParams(New(mdefaults))
          /\ PoolParams(breakers[q]) = PoolParams(New(mdefaults))

\* The places of handleInvoke where the request holds the pool Get returned.
HoldsPool(q) ==
    q.pc \in {"acquire", "waiting", "exiting", "acqOK", "acqErr", "forward", "respond"}

\* C25: however many first-use lookups of a rule name run concurrently, at
\* most one pool is ever created for the name, and every lookup returns that
\* pool: all requests matched to the rule work on the same active/waiting
\* state.
C25_OnePoolPerName ==
    /\ \A p \in Pools : breakers[p].gen <= 1 /\ (breakers[p].exists <=> breakers[p].gen = 1)
    /\ \A r \in DOMAIN rq :
          HoldsPool(rq[r])
              => breakers[rq[r].pool].exists /\ rq[r].bgen = breakers[rq[r].pool].gen

\* C25 witness: two requests missed the same name under the reader lock; one
\* has created the pool and holds it, the other is about to take the writer
\* lock and run its double-check.
C25_Witness ==
    \E r1, r2 \in DOMAIN rq :
        /\ r1 # r2
        /\ rq[r1].pool = rq[r2].pool
        /\ rq[r1].pc = "getslow"
        /\ HoldsPool(rq[r2])
        /\ breakers[rq[r1].pool].exists

\* C26: a request rejected because the queue is full is answered 503 by the
\* Acquire that found the queue full, without waiting, and the queue_full
\* rejection counter is incremented exactly once for it.
C26_QueueFullCountedOnce ==
    \A r \in DOMAIN rq :
        (rq[r].pc = "done" /\ rq[r].errType = "queue_full")
            => rq[r].status = 503 /\ rq[r].qfull = 1

(***************************************************************************)
(* Matching and selection.                                                 *)
(***************************************************************************)
\* The backends named a that rule (or default) name has in table version v.
BackendsNamed(v, name, a) ==
    LET cfg == ConfigOf(v)
        pool == IF name = "_default"
                THEN IF Len(cfg.defaults) > 0 THEN cfg.defaults[1].backend ELSE <<>>
                ELSE Flatten([k \in 1..Len(cfg.rules) |->
                                IF cfg.rules[k].name = name THEN cfg.rules[k].backends
                                ELSE <<>>])
    IN  {pool[k] : k \in {j \in 1..Len(pool) : pool[j].agentName = a}}

\* From the selection up to the forward the request keeps its backend.
BeforeForward(q) == q.pc \in {"get", "getslow", "acquire", "waiting", "exiting", "acqOK"}

\* C27: the backend selected for a request is a backend of the rule (or the
\* default) used, in the table version the request was matched against, and
\* its ready bit is true there; that backend is the one forwarded to.
C27_OnlyReadyBackends ==
    /\ [](\A r \in DOMAIN rq :
            rq[r].pc = "get"
                => /\ BackendsNamed(rq[r].mtab, rq[r].pool, rq[r].backend) # {}
                   /\ \A b \in BackendsNamed(rq[r].mtab, rq[r].pool, rq[r].backend) : b.ready)
    /\ [][\A r \in DOMAIN rq :
            BeforeForward(rq[r])
                => rq'[r].backend = rq[r].backend /\ rq'[r].pool = rq[r].pool]_vars

\* C27 witness: a request was matched to a rule that has an unready and a
\* ready backend and got the ready one.
C27_Witness ==
    \E r \in DOMAIN rq :
        /\ rq[r].pc = "get"
        /\ rq[r].pool # "_default"
        /\ \E k \in 1..Len(ConfigOf(rq[r].mtab).rules) :
              /\ ConfigOf(rq[r].mtab).rules[k].name = rq[r].pool
              /\ \E j \in 1..Len(ConfigOf(rq[r].mtab).rules[k].backends) :
                    ~ConfigOf(rq[r].mtab).rules[k].backends[j].ready
        /\ \E b \in BackendsNamed(rq[r].mtab, rq[r].pool, rq[r].backend) : b.ready

\* The rules of table version v that name agent a and have a ready backend.
AgentRules(v, a) ==
    {k \in 1..Len(ConfigOf(v).rules) :
        /\ ConfigOf(v).rules[k].match.agent = a
        /\ \E j \in 1..Len(ConfigOf(v).rules[k].backends) :
              ConfigOf(v).rules[k].backends[j].ready}

\* C28: a request that names an agent is routed to that agent: the rule used
\* is the first rule whose match.agent is the requested agent and which has
\* a ready backend, and the backend selected for the forward is that agent.
C28_ExplicitAgentRouted ==
    \A r \in DOMAIN rq :
        (rq[r].pc = "get" /\ ReqKinds[rq[r].kind].agent # "")
            => /\ AgentRules(rq[r].mtab, ReqKinds[rq[r].kind].agent) # {}
               /\ rq[r].pool =
                     ConfigOf(rq[r].mtab).rules[
                        MinOf(AgentRules(rq[r].mtab, ReqKinds[rq[r].kind].agent))].name
               /\ rq[r].backend = ReqKinds[rq[r].kind].agent

(***************************************************************************)
(* Task controller: the outcome of a finished Job.                         *)
(***************************************************************************)
\* The marker lines of the Job's log, by position.
MarkerLines(j) ==
    IF j.log = 0 THEN {} ELSE {k \in 1..Len(Logs[j.log]) : Logs[j.log][k].marker}

LastMarker(j) ==
    CHOOSE k \in MarkerLines(j) : \A m \in MarkerLines(j) : m <= k

\* The phase and Ready reason the claim assigns to a finished Job, given
\* whether its log could be read.
ExpectedOutcome(j, readable) ==
    IF j.state = "failed" THEN <<"Failed", "JobFailed">>
    ELSE IF ~readable \/ MarkerLines(j) = {} THEN <<"Completed", "Completed">>
    ELSE IF Logs[j.log][LastMarker(j)].payload = "pass" THEN <<"Completed", "Completed">>
    ELSE <<"Failed", "PartialCompletion">>

\* The Running-phase poll will look at the Job and find it finished.
PollFindsJobFinished ==
    /\ task.exists /\ ~task.deleting /\ task.finalizer /\ ~task.paused
    /\ task.phase = "Running"
    /\ ~TimedOut(task)
    /\ job.state \in {"succeeded", "failed"}

\* C29: when the Running-phase poll finds the Job finished and stores the
\* status, the phase is decided by the outcome: succeeded and passed, or
\* succeeded with no result to extract, gives Completed with Ready true;
\* succeeded and not passed gives Failed; a failed Job gives Failed whatever
\* its log holds.
C29_PhaseFollowsJobOutcome ==
    PollFindsJobFinished =>
        \A in \in ReconcileInputs :
            LET w == ReconcileOp([task |-> task, job |-> job, pvc |-> pvc, res |-> NoRes], in)
            IN  /\ w.res.handler = "handleRunningPhase"
                /\ IF w.res.err THEN w.task = task
                   ELSE <<w.task.phase, w.task.reason>> = ExpectedOutcome(job, in.readable)

\* C29 witness: the poll found a succeeded Job whose log has no marker and
\* stored Completed.
C29_Witness ==
    /\ last.handler = "handleRunningPhase" /\ ~last.err
    /\ job.state = "succeeded" /\ MarkerLines(job) = {}
    /\ task.phase = "Completed" /\ task.reason = "Completed"

\* C30: the result extracted from a readable log is the one parsed from the
\* last line that contains the marker, whatever marker lines precede it and
\* whatever other lines follow it; with no marker line there is no result.
C30_LastMarkerWins ==
    job.log # 0 =>
        LET r == getOrchestratorResult(job, TRUE)
        IN  IF MarkerLines(job) = {} THEN r.err
            ELSE LET payload == Logs[job.log][LastMarker(job)].payload
                 IN  /\ ~r.err
                     /\ r.passed = Unmarshal(payload).passed
                     /\ r.error = Unmarshal(payload).error

\* C30 witness: a succeeded Job whose log has a passing marker line, then a
\* failing one, then another line, was polled and the Task failed with the
\* error of the later marker line.
C30_Witness ==
    /\ last.handler = "handleRunningPhase" /\ ~last.err
    /\ job.state = "succeeded"
    /\ Cardinality(MarkerLines(job)) > 1
    /\ LastMarker(job) < Len(Logs[job.log])
    /\ task.phase = "Failed"
    /\ task.message = Msg(Unmarshal(Logs[job.log][LastMarker(job)].payload).error, 0)

(***************************************************************************)
(* Task controller: initialisation, pause and recreation.                  *)
(***************************************************************************)
\* A Reconcile call stored the Task's first phase.
PhaseInitialised == task.exists /\ task.phase = "" /\ task'.phase # ""

\* C31: the first phase a Task gets is Pending, stored with the three
\* counters at zero by a call that requeues, on a Task that already carries
\* the finalizer (added by an earlier call that requeued too); neither call
\* creates a claim or a Job, so a Task that owns one carries the finalizer.
C31_FinalizerThenPending ==
    /\ [][/\ (PhaseInitialised =>
                (/\ task.finalizer /\ task'.finalizer
                 /\ task'.phase = "Pending"
                 /\ task'.counters = <<0, 0, 0>>
                 /\ last'.requeue = "now"
                 /\ job.state = "absent" /\ job'.state = "absent"
                 /\ ~pvc /\ ~pvc'))
           /\ ((task.exists /\ ~task.finalizer /\ task'.finalizer) =>
                (/\ task.phase = "" /\ task'.phase = ""
                 /\ last'.requeue = "now"
                 /\ job'.state = "absent" /\ ~pvc'))]_vars
    /\ []((task.exists /\ (job.state # "absent" \/ pvc)) => task.finalizer)

\* C31 witness: a Task that went through both steps owns a Job and a claim.
C31_Witness ==
    /\ task.exists /\ task.finalizer /\ task.phase = "Running"
    /\ job.state = "active" /\ pvc

\* C33: the Job first created for a Task is created with the recreation
\* counter still at zero, and a Task in Running has had a Job created for it.
C33_RunningOnlyAfterJob ==
    /\ [][(~job.created /\ job'.created) => task.annot = 0]_vars
    /\ [](task.exists /\ task.phase = "Running" => job.created)

\* C34: the total-timeout clock, status.startedAt, is stamped at the first
\* entry into Running and never stamped again while the Task exists, so the
\* time the timeout check measures runs from that first entry.
C34_ClockNotRestarted ==
    [][(task.exists /\ task'.exists /\ Len(task.startedAt) > 0)
         => task'.startedAt = task.startedAt]_vars

\* C35: the recreation counter changes only in a call that also returns the
\* Task to Pending, so a lost Job is counted once however its handling is
\* retried.
C35_CounterMovesWithPhase ==
    [][(task.exists /\ task'.exists /\ task'.annot # task.annot)
         => (task.phase = "Running" /\ task'.phase = "Pending")]_vars

(***************************************************************************)
(* Several Routes and one published table.                                 *)
(***************************************************************************)
\* The rule names of a Route's spec, and those of the published table.
RuleNamesOf(r) == {r.rules[i].name : i \in 1..Len(r.rules)}
PublishedRuleNames(c) ==
    IF c.exists THEN {c.config.rules[k].name : k \in 1..Len(c.config.rules)} ELSE {}

\* The Route's last reconciliation published its table and stored its status.
RouteReconciled(r) == r.reason \in {"AllBackendsReady", "BackendsNotReady"}

\* C32: once both Routes have been reconciled the published table holds the
\* rules of both, and no step removes from the table a rule of a Route that
\* exists.
C32_TableHoldsEveryRoute ==
    /\ []((route2.exists /\ RouteReconciled(route) /\ RouteReconciled(route2))
            => (RuleNamesOf(route) \cup RuleNamesOf(route2)) \subseteq PublishedRuleNames(cm))
    /\ [][/\ (RuleNamesOf(route) \cap PublishedRuleNames(cm)) \subseteq PublishedRuleNames(cm')
          /\ (route2.exists /\ route2'.exists)
              => ((RuleNamesOf(route2) \cap PublishedRuleNames(cm))
                     \subseteq PublishedRuleNames(cm'))]_vars

\* The call that observes the second Route's deletion.
DeletionObserved == ~route2.exists /\ olast'.ctrl = "route" /\ olast'.handler = "notfound"

\* C38: the reconciliation that observes a Route's deletion, the only code
\* run for a deleted Route, leaves a table without that Route's rules.
C38_DeletedRouteLeavesTable ==
    [][DeletionObserved => RuleNamesOf(route2) \cap PublishedRuleNames(cm') = {}]_vars

(***************************************************************************)
(* MCP tool names and session streams.                                     *)
(***************************************************************************)
\* The namespaces of the ready agents whose listing contains the name.
ProducersOf(c, name) ==
    (IF name \in ToolNamesOf(c) THEN {c.namespace} ELSE {})
    \cup (IF c.twin # "none" /\ name \in ToolNamesOf(TwinAgent(c))
          THEN {TwinAgent(c).namespace} ELSE {})

\* tools/call for a listed name.
CallOf(name, args) ==
    [method |-> "tools/call", params |-> "ok", name |-> name, args |-> args]

\* C36: with the cache unchanged, every name tools/list returns, passed to
\* tools/call on either transport, is forwarded to the endpoint of a ready
\* agent that produced that name in the listing, whatever the order in
\* which the cache is visited.
C36_ListedNameReachesItsAgent ==
    \A listed \in RangeViews(cache), called \in RangeViews(cache) :
        \A name \in buildToolsList(listed), args \in ArgumentMaps :
            /\ ReachesWorker(called, CallOf(name, args))
            /\ HTTPResponse(called, CallOf(name, args), "ok").to \in ProducersOf(cache, name)
            /\ SSEResponse(called, CallOf(name, args), "ok").to \in ProducersOf(cache, name)

\* A forward made for session s returns and its answer is written to the
\* session's stream.
AnswerWritten(s) == mcalls'.by[s] < mcalls.by[s]

\* C37: an event is written to a session's stream only while the session's
\* connection handler has not returned.
C37_NoWriteAfterHandlerReturned ==
    [][\A s \in Sessions : AnswerWritten(s) => sessions[s].phase = "open"]_vars

(***************************************************************************)
(* Wake tokens and free capacity.                                          *)
(***************************************************************************)
\* The Acquire calls parked in the select of pool p, no case chosen yet.
Parked(p) == {r \in DOMAIN rq : rq[r].pc = "waiting" /\ rq[r].pool = p}

\* Pool p has a free slot, a parked waiter and an empty wake channel.
BlockedWhileFree(p) ==
    /\ breakers[p].exists
    /\ breakers[p].active < breakers[p].maxConcurrent
    /\ Parked(p) # {}
    /\ breakers[p].tokens = 0

\* C39 as stated: in every state, a pool with a free slot and a parked
\* waiter has a wake token pending.
C39_TokenPendingWheneverFree == \A p \in Pools : ~BlockedWhileFree(p)

\* The waiters of pool p that have received a token and not yet run the
\* critical section that counts them as active.
Woken(p) ==
    {r \in DOMAIN rq : rq[r].pc = "exiting" /\ rq[r].pool = p /\ rq[r].exit = "wake"}

\* C39, amended: a pool with a parked waiter and a slot that is neither
\* active nor already claimed by a woken waiter has a wake token pending,
\* and every parked waiter is eventually admitted unless its timer expires
\* or its context is cancelled.
C39_TokenPendingForUnclaimedSlot ==
    /\ [](\A p \in Pools :
            (/\ breakers[p].exists
             /\ breakers[p].active + Cardinality(Woken(p)) < breakers[p].maxConcurrent
             /\ Parked(p) # {})
            => breakers[p].tokens > 0)
    /\ \A r \in Reqs :
          (rq[r].pc = "waiting")
             ~> (rq[r].pc = "acqOK" \/ rq[r].timerFired \/ rq[r].ctxDone)

\* C39 witness: after a Release a pool has a free unclaimed slot, a parked
\* waiter whose timer and context are untouched, and a token pending.
C39_Witness ==
    \E r \in Reqs :
        /\ rq[r].pc = "waiting" /\ ~rq[r].timerFired /\ ~rq[r].ctxDone
        /\ breakers[rq[r].pool].active < breakers[rq[r].pool].maxConcurrent
        /\ Woken(rq[r].pool) = {}
        /\ breakers[rq[r].pool].tokens > 0

(***************************************************************************)
(* Failed reloads.                                                         *)
(***************************************************************************)
\* The watcher's reload fails for the first time since the last table swap.
ReloadFailed == wpc = "idle" /\ wpc' = "failed"

\* C40: a reload that fails changes neither the table nor the admission
\* defaults nor any pool or request; until a reload succeeds the table and
\* the defaults stay as they were and every request matched is matched
\* against that table; and the table in memory is never a blob that fails.
C40_FailedReloadKeepsTable ==
    /\ [][ReloadFailed => /\ table' = table /\ mdefaults' = mdefaults
                          /\ breakers' = breakers /\ rq' = rq]_vars
    /\ [][(wpc = "failed" /\ wpc' = "failed")
            => /\ table' = table /\ mdefaults' = mdefaults
               /\ \A r \in DOMAIN rq :
                     rq'[r].mtab # rq[r].mtab /\ rq'[r].mtab # -1
                        => rq'[r].mtab = table.config]_vars
    /\ [](/\ table.compiled = table.config
          /\ table.config # 0 => ~LoadFails(table.config))

\* C40 witness: a table is loaded, a later reload has failed, and a request
\* has been matched against the loaded table and given a backend from it.
C40_Witness ==
    /\ wpc = "failed"
    /\ table.config # 0
    /\ \E r \in DOMAIN rq :
          rq[r].pc = "get" /\ rq[r].mtab = table.config /\ rq[r].backend # ""

====
